---- MODULE Spec2Model ----
(***************************************************************************)
(* NetworkIQ backend: the profile matcher (backend/profile_analyzer.py),   *)
(* the resume background extractor (backend/resume_parser.py) and the API  *)
(* server (backend/main.py).                                               *)
(*                                                                         *)
(* Python dicts are TLA+ records whose domain is the set of keys present,  *)
(* so d.get(k, default) is Get(d, k, default) and d[k] on a missing key is *)
(* an exception the model tracks.  Python strings are TLA+ strings.        *)
(* Confidences are held in hundredths (0.3 is 30, 1.0 is 100).             *)
(***************************************************************************)
EXTENDS Integers, Sequences, FiniteSets, TLC

VARIABLES
    api_key,           \* a ProfileAnalyzer has been constructed, holding a key
    use_langextract,   \* ProfileAnalyzer.use_langextract, fixed at construction
    op,                \* the public operation in progress
    pc,                \* position inside the operation
    stage,             \* which loop of analyze_profiles_batch is running
    profiles,          \* the profile(s) handed to the operation
    elements,          \* user_search_elements of the call
    results,           \* the result dict(s) produced so far, in order
    paths,             \* the strategy that produced each result
    backend_calls,     \* per profile, the invocations of each generation backend
    parser,            \* the ResumeParser that parse_resume_file constructed
    resume,            \* the file handed to parse_resume_file
    resume_text,       \* the text read out of the file
    parsed,            \* the dict parse_resume returned
    strategy,          \* the strategy that produced it
    GEMINI_API_KEY,    \* main.py: the key is configured in the environment
    IS_PRODUCTION,     \* main.py: ENVIRONMENT is "production"
    users_db,          \* user id -> user record
    usage_db,          \* user id -> today's "scores" and "messages" counts
    profiles_db,       \* profile id -> stored profile
    messages_db,       \* message id -> stored message
    last_reply,        \* the response to the latest request
    message_log        \* the latest calls of generate_message and their replies

analyzer_vars == <<stage, profiles, elements, results, paths, backend_calls>>

parser_vars == <<parser, resume, resume_text, parsed, strategy>>

server_vars == <<GEMINI_API_KEY, IS_PRODUCTION, users_db, usage_db, profiles_db,
                 messages_db, last_reply, message_log>>

vars == <<api_key, use_langextract, op, pc, analyzer_vars, parser_vars, server_vars>>

-----------------------------------------------------------------------------
(* Bounds of the model *)

MaxElems == 3
MaxMatches == 2
MaxCalls == 4

-----------------------------------------------------------------------------
(* Python dict and str primitives *)

Get(d, k, default) == IF k \in DOMAIN d THEN d[k] ELSE default

Put(d, k, v) == [x \in (DOMAIN d) \cup {k} |-> IF x = k THEN v ELSE d[x]]

UpperAlphabet == "ABCDEFGHIJKLMNOPQRSTUVWXYZ"
LowerAlphabet == "abcdefghijklmnopqrstuvwxyz"

\* str.lower() and str.upper() on one character
ToLowerMap ==
    [c \in {SubSeq(UpperAlphabet, i, i) : i \in 1..Len(UpperAlphabet)} |->
        LET i == CHOOSE k \in 1..Len(UpperAlphabet) : SubSeq(UpperAlphabet, k, k) = c
        IN  SubSeq(LowerAlphabet, i, i)]

ToUpperMap ==
    [c \in {SubSeq(LowerAlphabet, i, i) : i \in 1..Len(LowerAlphabet)} |->
        LET i == CHOOSE k \in 1..Len(LowerAlphabet) : SubSeq(LowerAlphabet, k, k) = c
        IN  SubSeq(UpperAlphabet, i, i)]

LowerChar(c) == IF c \in DOMAIN ToLowerMap THEN ToLowerMap[c] ELSE c

UpperChar(c) == IF c \in DOMAIN ToUpperMap THEN ToUpperMap[c] ELSE c

\* str.lower() and str.upper(), character by character (by halves, to keep
\* the evaluation shallow on long texts)
RECURSIVE Lower(_)
Lower(s) ==
    IF Len(s) <= 1 THEN LowerChar(s)
    ELSE Lower(SubSeq(s, 1, Len(s) \div 2))
         \o Lower(SubSeq(s, Len(s) \div 2 + 1, Len(s)))

RECURSIVE Upper(_)
Upper(s) ==
    IF Len(s) <= 1 THEN UpperChar(s)
    ELSE Upper(SubSeq(s, 1, Len(s) \div 2))
         \o Upper(SubSeq(s, Len(s) \div 2 + 1, Len(s)))

\* Python's `a in b` on two strings
Contains(a, b) ==
    \E i \in 1..(Len(b) - Len(a) + 1) : SubSeq(b, i, i + Len(a) - 1) = a

Min(a, b) == IF a < b THEN a ELSE b

Whitespace == {" ", "\n", "\t"}

RECURSIVE Strip(_)
Strip(s) ==
    IF s = "" THEN ""
    ELSE IF SubSeq(s, 1, 1) \in Whitespace THEN Strip(SubSeq(s, 2, Len(s)))
    ELSE IF SubSeq(s, Len(s), Len(s)) \in Whitespace
         THEN Strip(SubSeq(s, 1, Len(s) - 1))
    ELSE s

IsLetter(c) == c \in DOMAIN ToLowerMap \/ c \in DOMAIN ToUpperMap

\* str.title(): a letter is upper-cased after a non-letter, lower-cased
\* after a letter
RECURSIVE TitleFrom(_, _)
TitleFrom(s, prev_is_letter) ==
    IF s = "" THEN ""
    ELSE LET c == SubSeq(s, 1, 1)
         IN  (IF prev_is_letter THEN LowerChar(c) ELSE UpperChar(c))
             \o TitleFrom(SubSeq(s, 2, Len(s)), IsLetter(c))

Title(s) == TitleFrom(s, FALSE)

\* the first n members of a list, Python's xs[:n]
Take(xs, n) == SubSeq(xs, 1, Min(n, Len(xs)))

\* the members of a vocabulary list that occur in the text, in list order
VocabularyHits(vocabulary, text) ==
    SelectSeq(vocabulary, LAMBDA w : Contains(w, text))

RECURSIVE SumPoints(_)
SumPoints(ms) ==
    IF ms = <<>> THEN 0 ELSE Head(ms)["points"] + SumPoints(Tail(ms))

\* the subsequences of s (order kept) of at most n members
SubLists(s, n) ==
    LET pick(I) == [k \in 1..Cardinality(I) |->
                      s[CHOOSE i \in I : Cardinality({j \in I : j < i}) = k - 1]]
    IN  {pick(I) : I \in {J \in SUBSET (1..Len(s)) : Cardinality(J) <= n}}

-----------------------------------------------------------------------------
(* Inputs: profiles and the user's search elements *)

Profiles == {
    [name |-> "Ann Lee", text |-> "graduated USAFA",
     headline |-> "Johns Hopkins University", about |-> "navy Python"],
    [name |-> "Bo Diaz", text |-> "Air Force veteran",
     headline |-> "Engineer", about |-> ""],
    [name |-> "Cy Roe", text |-> "", headline |-> "stanford", about |-> "university"] }

\* Well-formed elements, plus one without "value" as an unvalidated
\* generation-derived element list may hold (resume_parser.py:511-519).
ElementPool == <<
    [category |-> "military", value |-> "usafa", weight |-> 45,
     display |-> "USAFA Alumni"],
    [category |-> "military", value |-> "navy", weight |-> 30,
     display |-> "Navy Veteran"],
    [category |-> "education", value |-> "stanford university", weight |-> 30,
     display |-> "Alumni: Stanford University"],
    [category |-> "education", value |-> "johns hopkins university", weight |-> 35,
     display |-> "Alumni: Johns Hopkins University"],
    [category |-> "skill", value |-> "python", weight |-> 10,
     display |-> "Shared skill: python"],
    [category |-> "keyword", weight |-> 5, display |-> "Founder"] >>

ElementLists == SubLists(ElementPool, MaxElems)

-----------------------------------------------------------------------------
(* Scoring shared by every path *)

CONFIDENCE_THRESHOLD == 30

HIGH_TIER_MIN == 40

MEDIUM_TIER_MIN == 20

SCORE_CAP == 100

\* the boundary score 40 classed as medium
TierStrict(total_score) ==
    IF total_score > HIGH_TIER_MIN THEN "high"
    ELSE IF total_score >= MEDIUM_TIER_MIN THEN "medium"
    ELSE "low"

Tier(total_score) ==
    IF total_score >= HIGH_TIER_MIN THEN "high"
    ELSE IF total_score >= MEDIUM_TIER_MIN THEN "medium"
    ELSE "low"

CapScore(total) == Min(total, SCORE_CAP)

-----------------------------------------------------------------------------
(* ProfileAnalyzer._fallback_scoring *)

\* the profile text left in its original case
FallbackProfileTextCased(p) ==
    Get(p, "text", "") \o " " \o Get(p, "headline", "") \o " " \o Get(p, "about", "")

FallbackProfileText(p) ==
    Lower(Get(p, "text", "") \o " " \o Get(p, "headline", "") \o " "
          \o Get(p, "about", ""))

FallbackMatch(element) ==
    LET search_value == Lower(Get(element, "value", ""))
    IN  [found_in_profile |-> search_value,
         matches_element |-> Get(element, "display", search_value),
         points |-> element["weight"],
         category |-> Get(element, "category", "keyword")]

RECURSIVE FallbackMatches(_, _)
FallbackMatches(profile_text, els) ==
    IF els = <<>> THEN <<>>
    ELSE LET element == Head(els)
             rest == FallbackMatches(profile_text, Tail(els))
         IN  IF Contains(Lower(Get(element, "value", "")), profile_text)
             THEN <<FallbackMatch(element)>> \o rest
             ELSE rest

fallback_scoring(p, els) ==
    LET matches == FallbackMatches(FallbackProfileText(p), els)
        score == CapScore(SumPoints(matches))
    IN  [score |-> score, tier |-> Tier(score), matches |-> matches]

-----------------------------------------------------------------------------
(* ProfileAnalyzer._build_analysis_prompt: elem["value"] and elem["weight"] *)
(* are subscripted, so an element lacking either raises KeyError.           *)

BuildPromptRaises(els) ==
    \E i \in 1..Len(els) : ~({"value", "weight"} \subseteq DOMAIN els[i])

-----------------------------------------------------------------------------
(* ProfileAnalyzer.analyze_profile, the Gemini generate_content path *)

NullLiterals == {"NULL", "NONE", "N/A", ""}

IsNullFound(match) ==
    LET found_text == Upper(Strip(Get(match, "found_in_profile", "")))
    IN  \/ found_text \in NullLiterals
        \/ Contains("NO DIRECT MENTION", found_text)
        \/ Contains("NOTHING STATES", found_text)

\* lines 99-104: the match as it stands after the NULL check
ForceNullConfidence(match) ==
    IF IsNullFound(match) THEN Put(match, "confidence", 0) ELSE match

\* lines 106-110
PassesThreshold(match) ==
    Get(match, "confidence", 100) >= CONFIDENCE_THRESHOLD

RECURSIVE ValidMatches(_)
ValidMatches(ms) ==
    IF ms = <<>> THEN <<>>
    ELSE LET match == ForceNullConfidence(Head(ms))
         IN  IF PassesThreshold(match)
             THEN <<match>> \o ValidMatches(Tail(ms))
             ELSE ValidMatches(Tail(ms))

\* A response of model.generate_content: the call raises, the text is not
\* JSON, or it parses to a dict that may or may not hold "matches".
GeminiRaises(response) ==
    \/ response.kind \in {"call_error", "unparsable"}
    \/ "matches" \notin DOMAIN response.json
    \/ \E i \in 1..Len(ValidMatches(response.json.matches)) :
           "points" \notin DOMAIN ValidMatches(response.json.matches)[i]

GeminiResult(response) ==
    LET valid_matches == ValidMatches(response.json.matches)
        total_score == CapScore(SumPoints(valid_matches))
    IN  [score |-> total_score, tier |-> Tier(total_score),
         matches |-> valid_matches]

-----------------------------------------------------------------------------
(* ProfileAnalyzer._find_matching_element and its variation tables *)

edu_variations == <<
    <<"mit", <<"massachusetts institute of technology", "mit">> >>,
    <<"stanford", <<"stanford university", "stanford">> >>,
    <<"harvard", <<"harvard university", "harvard college", "harvard">> >>,
    <<"usafa", <<"air force academy", "united states air force academy", "usafa">> >>,
    <<"west point", <<"west point", "usma", "united states military academy">> >> >>

company_variations == <<
    <<"google", <<"google", "alphabet", "youtube">> >>,
    <<"meta", <<"meta", "facebook", "instagram", "whatsapp">> >>,
    <<"amazon", <<"amazon", "aws", "amazon web services">> >>,
    <<"microsoft", <<"microsoft", "linkedin", "github">> >> >>

MatchVariations(table, user_value, profile_value) ==
    \E k \in 1..Len(table) :
        /\ Contains(table[k][1], user_value)
        /\ \E v \in 1..Len(table[k][2]) : Contains(table[k][2][v], profile_value)

match_education(user_edu, profile_edu) ==
    MatchVariations(edu_variations, user_edu, profile_edu)

match_company(user_company, profile_company) ==
    MatchVariations(company_variations, user_company, profile_company)

ElementMatchesText(element, extracted_lower) ==
    LET element_value == Lower(Get(element, "value", ""))
    IN  \/ Contains(element_value, extracted_lower)
        \/ Contains(extracted_lower, element_value)
        \/ /\ Get(element, "category", "") = "education"
           /\ match_education(element_value, extracted_lower)
        \/ /\ Get(element, "category", "") = "company"
           /\ match_company(element_value, extracted_lower)

\* the index in user_elements of the element returned, 0 for None
find_matching_element(extracted_text, user_elements) ==
    LET extracted_lower == Lower(extracted_text)
        hits == {i \in 1..Len(user_elements) :
                    ElementMatchesText(user_elements[i], extracted_lower)}
    IN  IF hits = {} THEN 0
        ELSE CHOOSE i \in hits : \A j \in hits : i <= j

-----------------------------------------------------------------------------
(* ProfileAnalyzer._analyze_with_langextract, _process_extractions *)

LANGEXTRACT_DEFAULT_CONFIDENCE == 80

EXTRACTION_CONFIDENCE == 90

\* lines 217-232: matches built from extracted_data["matches"]
\* and lines 725-738, where the category is the element's (batch = TRUE)
RECURSIVE DataMatches(_, _, _)
DataMatches(match_list, user_elements, batch) ==
    IF match_list = <<>> THEN <<>>
    ELSE LET match_data == Head(match_list)
             text == Get(match_data, "text", "")
             i == find_matching_element(text, user_elements)
             rest == DataMatches(Tail(match_list), user_elements, batch)
         IN  IF i = 0 THEN rest
             ELSE <<[category |-> IF batch THEN user_elements[i]["category"]
                                  ELSE Get(match_data, "category",
                                           user_elements[i]["category"]),
                     found_in_profile |-> text,
                     matches_element |-> user_elements[i]["display"],
                     points |-> user_elements[i]["weight"],
                     confidence |-> Get(match_data, "confidence",
                                        LANGEXTRACT_DEFAULT_CONFIDENCE)]>> \o rest

RECURSIVE process_extractions(_, _)
process_extractions(extractions, user_elements) ==
    IF extractions = <<>> THEN <<>>
    ELSE LET text == Head(extractions)
             i == find_matching_element(text, user_elements)
             rest == process_extractions(Tail(extractions), user_elements)
         IN  IF i = 0 THEN rest
             ELSE <<[category |-> user_elements[i]["category"],
                     found_in_profile |-> text,
                     matches_element |-> user_elements[i]["display"],
                     points |-> user_elements[i]["weight"],
                     confidence |-> EXTRACTION_CONFIDENCE]>> \o rest

\* lines 209-236: a result of extract() carries "data", "extractions", both
\* or neither; extracted_data is result.data or {}
ExtractedMatches(extraction, user_elements) ==
    LET extracted_data == Get(extraction, "data", [email |-> ""])
    IN  IF "matches" \in DOMAIN extracted_data
        THEN DataMatches(extracted_data.matches, user_elements, FALSE)
        ELSE IF "extractions" \in DOMAIN extraction
        THEN process_extractions(extraction.extractions, user_elements)
        ELSE <<>>

CountsTowardsScore(m) == Get(m, "confidence", 0) >= CONFIDENCE_THRESHOLD

\* lines 239-246 and 744-751
ScoreOfMatches(matches) ==
    CapScore(SumPoints(SelectSeq(matches, CountsTowardsScore)))

LangExtractResult(extraction, user_elements) ==
    LET matches == ExtractedMatches(extraction, user_elements)
        total_score == ScoreOfMatches(matches)
    IN  [score |-> total_score, tier |-> Tier(total_score),
         matches |-> matches, extraction_method |-> "langextract"]

\* ProfileAnalyzer._process_batch_result
process_batch_result(extraction, p, user_elements) ==
    LET matches ==
            IF "data" \in DOMAIN extraction
            THEN IF "matches" \in DOMAIN extraction.data
                 THEN DataMatches(extraction.data.matches, user_elements, TRUE)
                 ELSE <<>>
            ELSE IF "extractions" \in DOMAIN extraction
            THEN process_extractions(extraction.extractions, user_elements)
            ELSE <<>>
        total_score == ScoreOfMatches(matches)
    IN  [profile_name |-> Get(p, "name", "Unknown"),
         score |-> total_score, tier |-> Tier(total_score),
         matches |-> matches, extraction_method |-> "langextract_batch"]

-----------------------------------------------------------------------------
(* ResumeParser: the pattern strategy (_parse_text and its extractors).    *)
(* _parse_text lower-cases the text before any extractor sees it.          *)

\* re.findall of a pattern ([a-z\s]+word): leftmost match, the character
\* class taken greedily, so a match runs from pos to the last occurrence of
\* the word in the run of letters and whitespace that starts at pos
IsRunChar(c) == c \in DOMAIN ToUpperMap \/ c \in Whitespace

RunEnd(text, pos) ==
    LET stops == {e \in pos..Len(text) : ~IsRunChar(SubSeq(text, e, e))}
    IN  IF stops = {} THEN Len(text)
        ELSE (CHOOSE e \in stops : \A f \in stops : e <= f) - 1

RECURSIVE FindGreedy(_, _, _)
FindGreedy(word, text, pos) ==
    LET WordStarts(p) == {k \in (p + 1)..(RunEnd(text, p) - Len(word) + 1) :
                             SubSeq(text, k, k + Len(word) - 1) = word}
        matching == {p \in pos..Len(text) : WordStarts(p) # {}}
    IN  IF matching = {} THEN <<>>
        ELSE LET p == CHOOSE a \in matching : \A b \in matching : a <= b
                 k == CHOOSE a \in WordStarts(p) : \A b \in WordStarts(p) : b <= a
             IN  <<SubSeq(text, p, k + Len(word) - 1)>>
                 \o FindGreedy(word, text, k + Len(word))

\* re.findall of an alternation of literals (a|b|c)
RECURSIVE FindAlternatives(_, _, _)
FindAlternatives(alternatives, text, pos) ==
    LET Here(p) == SelectSeq(alternatives, LAMBDA a :
                       /\ p + Len(a) - 1 <= Len(text)
                       /\ SubSeq(text, p, p + Len(a) - 1) = a)
        matching == {p \in pos..Len(text) : Here(p) # <<>>}
    IN  IF matching = {} THEN <<>>
        ELSE LET p == CHOOSE a \in matching : \A b \in matching : a <= b
             IN  <<Here(p)[1]>>
                 \o FindAlternatives(alternatives, text, p + Len(Here(p)[1]))

university_words == <<"university", "college", "institute", "academy">>

academy_codes == <<"usafa", "usma", "usna", "uscga", "usmma">>

degree_patterns == <<
    <<"bachelor", "b.s.", "bs.", "b.a.", "ba.">>,
    <<"master", "m.s.", "ms.", "m.a.", "ma.", "mba">>,
    <<"ph.d.", "phd", "doctorate">> >>

RECURSIVE Flatten(_)
Flatten(lists) ==
    IF lists = <<>> THEN <<>> ELSE Head(lists) \o Flatten(Tail(lists))

extract_education(text) ==
    LET found == Flatten([i \in 1..Len(university_words) |->
                             FindGreedy(university_words[i], text, 1)])
                 \o FindAlternatives(academy_codes, text, 1)
        degrees == Flatten([i \in 1..Len(degree_patterns) |->
                               FindAlternatives(degree_patterns[i], text, 1)])
    IN  [i \in 1..Len(found) |->
            [institution |-> Strip(found[i]), type |-> "university"]]
        \o [i \in 1..Len(degrees) |->
            [degree |-> Strip(degrees[i]), type |-> "degree"]]

tech_companies == <<
    "google", "meta", "facebook", "amazon", "apple", "microsoft", "openai",
    "anthropic", "tesla", "spacex", "uber", "airbnb", "stripe", "coinbase",
    "dropbox", "slack", "zoom", "oracle", "ibm", "intel", "nvidia", "amd",
    "salesforce", "adobe", "c3.ai", "c3 ai", "palantir", "databricks",
    "snowflake" >>

\* The three regular expressions of lines 600-604 each require an upper-case
\* letter and so find nothing in the lower-cased text; list(set(...))
\* leaves the companies in an order the hash seed decides.
extract_companies(text) ==
    {tech_companies[i] : i \in {j \in 1..Len(tech_companies) :
                                   Contains(tech_companies[j], text)}}

Orderings(S) ==
    {seq \in [1..Cardinality(S) -> S] :
        \A i, j \in 1..Cardinality(S) : seq[i] = seq[j] => i = j}

all_skills == <<
    "python", "java", "javascript", "typescript", "c++", "c#", "ruby", "go",
    "rust", "swift", "kotlin", "scala", "r",
    "react", "angular", "vue", "django", "flask", "fastapi", "spring",
    "nodejs", "express", "rails", "laravel", "tensorflow", "pytorch",
    "scikit-learn", "pandas", "numpy",
    "aws", "azure", "gcp", "google cloud", "kubernetes", "docker",
    "terraform", "jenkins", "gitlab", "github", "ci/cd",
    "sql", "postgresql", "mysql", "mongodb", "redis", "elasticsearch",
    "cassandra", "dynamodb", "firebase" >>

extract_skills(text) == VocabularyHits(all_skills, text)

negative_patterns == <<
    "no military", "not military", "non-military", "without military",
    "never served", "civilian" >>

military_keywords == <<
    "air force", "army", "navy", "marine", "coast guard", "military",
    "veteran", "active duty", "reserve", "national guard", "usafa",
    "west point", "usma", "naval academy", "usna", "officer", "enlisted",
    "sergeant", "lieutenant", "captain", "major", "colonel" >>

branch_names == <<"air force", "army", "navy", "marine", "coast guard">>

academy_names == <<"usafa", "usma", "usna", "west point", "naval academy">>

\* None is the empty dict: both are falsy where the result is read
NoneDict == <<>>

Truthy(d) == DOMAIN d # {}

\* _extract_military without the negative-context check of lines 738-740
extract_military_unguarded(text) ==
    LET hits == VocabularyHits(military_keywords, text)
        branches == SelectSeq(hits, LAMBDA k :
                       \E b \in 1..Len(branch_names) :
                           Contains(branch_names[b], k))
        academies == SelectSeq(hits, LAMBDA k :
                       \E a \in 1..Len(academy_names) :
                           Contains(academy_names[a], k))
        keys == (IF hits # <<>> THEN {"veteran"} ELSE {})
                \cup (IF branches # <<>> THEN {"branch"} ELSE {})
                \cup (IF academies # <<>> THEN {"academy"} ELSE {})
    IN  [k \in keys |->
           IF k = "veteran" THEN TRUE
           ELSE IF k = "branch" THEN branches[1]
           ELSE academies[Len(academies)]]

extract_military(text) ==
    IF VocabularyHits(negative_patterns, text) # <<>> THEN NoneDict
    ELSE LET hits == VocabularyHits(military_keywords, text)
             branches == SelectSeq(hits, LAMBDA k :
                            \E b \in 1..Len(branch_names) :
                                Contains(branch_names[b], k))
             academies == SelectSeq(hits, LAMBDA k :
                            \E a \in 1..Len(academy_names) :
                                Contains(academy_names[a], k))
             keys == (IF hits # <<>> THEN {"veteran"} ELSE {})
                     \cup (IF branches # <<>> THEN {"branch"} ELSE {})
                     \cup (IF academies # <<>> THEN {"academy"} ELSE {})
         IN  [k \in keys |->
                IF k = "veteran" THEN TRUE
                ELSE IF k = "branch" THEN branches[1]
                ELSE academies[Len(academies)]]

cert_patterns == <<
    "aws certified", "azure certified", "google certified", "pmp", "cissp",
    "ccna", "ccnp", "comptia", "scrum master", "six sigma", "itil", "cpa",
    "cfa" >>

extract_certifications(text) == VocabularyHits(cert_patterns, text)

all_keywords == <<
    "fintech", "healthtech", "edtech", "biotech", "cleantech", "saas", "b2b",
    "b2c", "marketplace", "platform", "ai", "machine learning",
    "data science", "analytics", "blockchain", "crypto", "web3", "defi",
    "engineer", "developer", "architect", "manager", "director", "analyst",
    "scientist", "designer", "consultant", "lead", "senior", "principal",
    "staff", "founder", "ceo", "cto" >>

extract_keywords(text) == VocabularyHits(all_keywords, text)

\* _build_search_elements: education, companies, military, skills,
\* certifications, keywords, in that order; no sort and no limit
build_search_elements(data) ==
    LET institutions == SelectSeq(Get(data, "education", <<>>),
                            LAMBDA edu : "institution" \in DOMAIN edu)
        companies == Get(data, "companies", <<>>)
        military == Get(data, "military_service", NoneDict)
        skills == Take(Get(data, "skills", <<>>), 10)
        certifications == Get(data, "certifications", <<>>)
        keywords == Take(Get(data, "keywords", <<>>), 5)
    IN  [i \in 1..Len(institutions) |->
            [category |-> "education",
             value |-> institutions[i]["institution"],
             weight |-> 30,
             display |-> "Alumni: " \o Title(institutions[i]["institution"])]]
        \o [i \in 1..Len(companies) |->
            [category |-> "company",
             value |-> Lower(companies[i]),
             weight |-> 25,
             display |-> "Former " \o Title(companies[i])]]
        \o (IF ~Truthy(military) THEN <<>>
            ELSE IF Get(military, "academy", "") # ""
            THEN <<[category |-> "military",
                    value |-> military["academy"],
                    weight |-> 40,
                    display |-> Upper(military["academy"]) \o " Alumni"]>>
            ELSE IF Get(military, "branch", "") # ""
            THEN <<[category |-> "military",
                    value |-> military["branch"],
                    weight |-> 30,
                    display |-> Title(military["branch"]) \o " Veteran"]>>
            ELSE <<>>)
        \o [i \in 1..Len(skills) |->
            [category |-> "skill",
             value |-> skills[i],
             weight |-> 10,
             display |-> "Shared skill: " \o skills[i]]]
        \o [i \in 1..Len(certifications) |->
            [category |-> "certification",
             value |-> certifications[i],
             weight |-> 15,
             display |-> "Both have " \o Upper(certifications[i])]]
        \o [i \in 1..Len(keywords) |->
            [category |-> "keyword",
             value |-> keywords[i],
             weight |-> 5,
             display |-> Title(keywords[i])]]

\* _parse_text; company_order is the order list(set(...)) happened to give.
\* email, phone and years_experience are left out: nothing reads them.
parse_text(raw_text, company_order) ==
    LET lowered == Lower(raw_text)
        data == [full_text |-> Take(lowered, 5000),
                 education |-> extract_education(lowered),
                 companies |-> company_order,
                 skills |-> extract_skills(lowered),
                 military_service |-> extract_military(lowered),
                 keywords |-> extract_keywords(lowered),
                 certifications |-> extract_certifications(lowered),
                 search_elements |-> <<>>]
    IN  [data EXCEPT !.search_elements = build_search_elements(data)]

-----------------------------------------------------------------------------
(* ResumeParser: the LangExtract strategy and the Gemini strategy *)

MAX_SEARCH_ELEMENTS == 15

\* list.sort(key=weight, reverse=True): stable, equal weights keep their order
RECURSIVE InsertByWeight(_, _)
InsertByWeight(e, sorted) ==
    IF sorted = <<>> THEN <<e>>
    ELSE IF Head(sorted)["weight"] > e["weight"]
    THEN <<Head(sorted)>> \o InsertByWeight(e, Tail(sorted))
    ELSE <<e>> \o sorted

RECURSIVE SortByWeightDesc(_)
SortByWeightDesc(xs) ==
    IF xs = <<>> THEN <<>>
    ELSE InsertByWeight(Head(xs), SortByWeightDesc(Tail(xs)))

\* str.split("-")[0], and whether the split gives two parts or more
BeforeDash(s) ==
    LET dashes == {i \in 1..Len(s) : SubSeq(s, i, i) = "-"}
    IN  SubSeq(s, 1, (CHOOSE i \in dashes : \A j \in dashes : i <= j) - 1)

AfterDash(s) ==
    LET dashes == {i \in 1..Len(s) : SubSeq(s, i, i) = "-"}
        first == CHOOSE i \in dashes : \A j \in dashes : i <= j
        later == {i \in dashes : i > first}
    IN  SubSeq(s, first + 1,
               IF later = {} THEN Len(s)
               ELSE (CHOOSE i \in later : \A j \in later : i <= j) - 1)

\* the military branch of _build_data_from_extractions, one extraction
MilitaryFromText(military_service, extraction_text) ==
    LET mil_text == Lower(extraction_text)
        has(w) == Contains(w, mil_text)
        branched ==
            IF has("air force") \/ has("usafa")
            THEN LET b == Put(military_service, "branch", "air force")
                 IN  IF has("usafa") \/ has("academy")
                     THEN Put(b, "academy", "USAFA") ELSE b
            ELSE IF has("army") \/ has("west point")
            THEN LET b == Put(military_service, "branch", "army")
                 IN  IF has("west point")
                     THEN Put(b, "academy", "West Point") ELSE b
            ELSE IF has("navy") \/ has("naval academy")
            THEN LET b == Put(military_service, "branch", "navy")
                 IN  IF has("naval academy")
                     THEN Put(b, "academy", "Naval Academy") ELSE b
            ELSE IF has("marine")
            THEN Put(military_service, "branch", "marines")
            ELSE IF has("coast guard")
            THEN Put(military_service, "branch", "coast guard")
            ELSE military_service
    IN  Put(branched, "veteran", TRUE)

TextsOfClass(extractions, class) ==
    LET of_class == SelectSeq(extractions,
                        LAMBDA ext : ext.extraction_class = class)
    IN  [i \in 1..Len(of_class) |-> of_class[i].extraction_text]

RECURSIVE MilitaryFromExtractions(_, _)
MilitaryFromExtractions(texts, military_service) ==
    IF texts = <<>> THEN military_service
    ELSE MilitaryFromExtractions(Tail(texts),
                                 MilitaryFromText(military_service, Head(texts)))

build_data_from_extractions(extractions) ==
    LET dashed == SelectSeq(TextsOfClass(extractions, "education"),
                            LAMBDA edu_text : Contains("-", edu_text))
    IN  [education |-> [i \in 1..Len(dashed) |->
                           [institution |-> Strip(BeforeDash(dashed[i])),
                            degree |-> Strip(AfterDash(dashed[i]))]],
         companies |-> TextsOfClass(extractions, "company"),
         skills |-> TextsOfClass(extractions, "skill"),
         military_service |->
            MilitaryFromExtractions(TextsOfClass(extractions, "military"),
                                    NoneDict),
         certifications |-> TextsOfClass(extractions, "certification"),
         locations |-> TextsOfClass(extractions, "location"),
         achievements |-> TextsOfClass(extractions, "achievement"),
         keywords |-> TextsOfClass(extractions, "keyword")]

\* lines 227-238: which dict the extraction result is read as
ExtractedData(result) ==
    IF "data" \in DOMAIN result THEN result.data
    ELSE IF "extractions" \in DOMAIN result
    THEN build_data_from_extractions(result.extractions)
    ELSE <<>>

\* extract() itself fails, or result.data is None and line 242 raises
ParseExtractRaises(result) == result.kind \in {"raises", "data_none"}

\* the members of a list of strings that are truthy
NonEmpty(xs) == SelectSeq(xs, LAMBDA x : x # "")

\* lines 269-354: the elements of _parse_with_langextract before the sort
langextract_elements(data) ==
    LET institutions == SelectSeq(Get(data, "education", <<>>),
                            LAMBDA edu : Get(edu, "institution", "") # "")
        companies == NonEmpty(Get(data, "companies", <<>>))
        military == Get(data, "military_service", NoneDict)
        locations == NonEmpty(Take(Get(data, "locations", <<>>), 3))
        skills == NonEmpty(Take(Get(data, "skills", <<>>), 5))
        certifications == NonEmpty(Get(data, "certifications", <<>>))
        achievements == SelectSeq(Take(Get(data, "achievements", <<>>), 3),
                            LAMBDA achievement :
                                achievement # "" /\ Len(achievement) < 50)
    IN  [i \in 1..Len(institutions) |->
            [category |-> "education",
             value |-> Lower(institutions[i]["institution"]),
             weight |-> 35,
             display |-> "Alumni: " \o institutions[i]["institution"],
             confidence |-> 95]]
        \o [i \in 1..Len(companies) |->
            [category |-> "company",
             value |-> Lower(companies[i]),
             weight |-> 30,
             display |-> "Former " \o companies[i],
             confidence |-> 95]]
        \o (IF ~Truthy(military) THEN <<>>
            ELSE IF Get(military, "academy", "") # ""
            THEN <<[category |-> "military",
                    value |-> Lower(military["academy"]),
                    weight |-> 45,
                    display |-> military["academy"] \o " Alumni",
                    confidence |-> 95]>>
            ELSE IF Get(military, "branch", "") # ""
            THEN <<[category |-> "military",
                    value |-> Lower(military["branch"]),
                    weight |-> 35,
                    display |-> military["branch"] \o " Veteran",
                    confidence |-> 95]>>
            ELSE <<>>)
        \o [i \in 1..Len(locations) |->
            [category |-> "location",
             value |-> Lower(locations[i]),
             weight |-> 25,
             display |-> "Connected to " \o locations[i],
             confidence |-> 90]]
        \o [i \in 1..Len(skills) |->
            [category |-> "skill",
             value |-> Lower(skills[i]),
             weight |-> 15,
             display |-> "Shared skill: " \o skills[i],
             confidence |-> 85]]
        \o [i \in 1..Len(certifications) |->
            [category |-> "certification",
             value |-> Lower(certifications[i]),
             weight |-> 20,
             display |-> "Both have " \o certifications[i],
             confidence |-> 90]]
        \o [i \in 1..Len(achievements) |->
            [category |-> "achievement",
             value |-> Lower(achievements[i]),
             weight |-> 20,
             display |-> achievements[i],
             confidence |-> 85]]

\* _parse_with_langextract on a result that does not raise
parse_with_langextract(result, raw_text) ==
    LET data == ExtractedData(result)
    IN  [full_text |-> Take(raw_text, 5000),
         education |-> Get(data, "education", <<>>),
         companies |-> Get(data, "companies", <<>>),
         skills |-> Get(data, "skills", <<>>),
         military_service |-> Get(data, "military_service", NoneDict),
         keywords |-> Get(data, "keywords", <<>>),
         certifications |-> Get(data, "certifications", <<>>),
         locations |-> Get(data, "locations", <<>>),
         achievements |-> Get(data, "achievements", <<>>),
         search_elements |-> Take(SortByWeightDesc(langextract_elements(data)),
                                  MAX_SEARCH_ELEMENTS),
         extraction_method |-> "langextract",
         extraction_confidence |-> "high"]

\* _parse_with_gemini: the call or json.loads fails and the error is re-raised
ParseGeminiRaises(response) == response.kind \in {"call_error", "unparsable"}

SetDefault(d, k, v) == IF k \in DOMAIN d THEN d ELSE Put(d, k, v)

RECURSIVE SetDefaults(_, _)
SetDefaults(d, defaults) ==
    IF defaults = <<>> THEN d
    ELSE SetDefaults(SetDefault(d, Head(defaults)[1], Head(defaults)[2]),
                     Tail(defaults))

\* _parse_with_gemini lines 498-519 on the parsed JSON object
parse_with_gemini(response, raw_text) ==
    LET filled == SetDefaults(response.json, <<
                      <<"full_text", Take(raw_text, 5000)>>,
                      <<"education", <<>> >>,
                      <<"companies", <<>> >>,
                      <<"skills", <<>> >>,
                      <<"military_service", NoneDict>>,
                      <<"keywords", <<>> >>,
                      <<"certifications", <<>> >>,
                      <<"search_elements", <<>> >> >>)
    IN  IF filled["search_elements"] # <<>> THEN filled
        ELSE Put(filled, "search_elements", build_search_elements(filled))

-----------------------------------------------------------------------------
(* What the generation backends may answer *)

GeminiCandidates == <<
    [category |-> "military", found_in_profile |-> "graduated USAFA",
     matches_element |-> "USAFA Alumni", points |-> 45, confidence |-> 30],
    [category |-> "education", found_in_profile |-> " null ",
     matches_element |-> "Alumni: Stanford University", points |-> 30,
     confidence |-> 90],
    [category |-> "military", found_in_profile |-> "none found",
     matches_element |-> "Navy Veteran", points |-> 30, confidence |-> 80],
    [category |-> "education", found_in_profile |-> "Johns Hopkins",
     matches_element |-> "Alumni: Johns Hopkins University", points |-> 35,
     confidence |-> 20],
    [category |-> "skill", found_in_profile |-> "python",
     matches_element |-> "Shared skill: python", points |-> 0 - 5],
    [category |-> "military", found_in_profile |-> "Air Force",
     matches_element |-> "Navy Veteran", points |-> 60, confidence |-> 90] >>

GeminiResponses ==
    {[kind |-> "call_error"], [kind |-> "unparsable"]}
    \cup {[kind |-> "json", json |-> [matches |-> ms]] :
             ms \in SubLists(GeminiCandidates, MaxMatches)}
    \cup {[kind |-> "json", json |-> j] : j \in {
             [insights |-> <<>>],
             [matches |-> <<[found_in_profile |-> "Engineer", confidence |-> 90]>>],
             [matches |-> <<[matches_element |-> "Navy Veteran", points |-> 30,
                            confidence |-> 90]>>],
             [matches |-> <<[found_in_profile |-> "No direct mention of navy",
                            matches_element |-> "Navy Veteran",
                            points |-> 30]>>] }}

LangExtractCandidates == <<
    [text |-> "USAFA", category |-> "education", confidence |-> 90],
    [text |-> "Johns Hopkins University"],
    [text |-> "python", confidence |-> 10],
    [confidence |-> 90],
    [text |-> "NULL", confidence |-> 90],
    [text |-> "Ford", confidence |-> 90],
    [text |-> "Air Force veteran", confidence |-> 90] >>

LangExtractResponses ==
    {[kind |-> "raises"]}
    \cup {[kind |-> "document", data |-> [matches |-> ms]] :
             ms \in SubLists(LangExtractCandidates, MaxMatches)}
    \cup {[kind |-> "document", extractions |-> <<"Stanford", "Air Force Academy">>],
          [kind |-> "document", data |-> [email |-> ""],
           extractions |-> <<"Navy">>],
          [kind |-> "other"]}

\* extract() on a list of documents: it raises, or returns a list (of any
\* length) of per-document results, or one result object
BatchDocuments == {
    [kind |-> "document",
     data |-> [matches |-> <<[text |-> "USAFA", confidence |-> 90],
                             [text |-> "python", confidence |-> 10]>>]],
    [kind |-> "document", extractions |-> <<"Navy">>] }

BatchExtractResponses(n) ==
    {[kind |-> "raises"]}
    \cup {[kind |-> "list", items |-> items] :
             items \in UNION {[1..k -> BatchDocuments] : k \in 0..(n + 1)}}
    \cup {[kind |-> "single", item |-> d] : d \in BatchDocuments}

BatchProfileLists == {
    <<>>,
    <<[name |-> "Bo Diaz", text |-> "Air Force veteran",
       headline |-> "Engineer", about |-> ""]>>,
    <<[name |-> "Ann Lee", text |-> "graduated USAFA",
       headline |-> "Johns Hopkins University", about |-> "navy Python"],
      [name |-> "Bo Diaz", text |-> "Air Force veteran",
       headline |-> "Engineer", about |-> ""]>> }

\* what langextract.extract may hand back to _parse_with_langextract
SmallResumeData ==
    [education |-> <<[institution |-> "Stanford University", degree |-> "BS"]>>,
     companies |-> <<"Google">>,
     skills |-> <<"Python">>,
     military_service |-> [branch |-> "Army", academy |-> "West Point"]]

LargeResumeData ==
    [education |-> <<[institution |-> "MIT"], [degree |-> "MBA"],
                     [institution |-> "Boston College"]>>,
     companies |-> <<"Stripe", "Meta", "", "Uber", "Oracle", "Adobe">>,
     skills |-> <<"AI", "Python", "SQL", "Go", "Rust", "Scala">>,
     military_service |-> [branch |-> "Navy", veteran |-> TRUE],
     certifications |-> <<"PMP", "CISSP">>,
     locations |-> <<"Austin", "Boston", "Denver", "Seattle">>,
     achievements |-> <<"Founder",
                        "Led the migration of the whole billing platform to a new cloud">>]

ResumeExtractions == <<
    [extraction_class |-> "skill", extraction_text |-> "Python"],
    [extraction_class |-> "education", extraction_text |-> "MIT - BS Physics - 2015"],
    [extraction_class |-> "education", extraction_text |-> "Boston College"],
    [extraction_class |-> "company", extraction_text |-> "Stripe"],
    [extraction_class |-> "military", extraction_text |-> "US Air Force Academy"],
    [extraction_class |-> "location", extraction_text |-> "Denver"],
    [extraction_class |-> "email", extraction_text |-> "jane@example.com"] >>

ParseExtractResponses == {
    [kind |-> "raises"],
    [kind |-> "data_none"],
    [kind |-> "document", data |-> SmallResumeData],
    [kind |-> "document", data |-> LargeResumeData],
    [kind |-> "document", extractions |-> ResumeExtractions],
    [kind |-> "other"] }

\* what the Gemini model may answer to the prompt of _parse_with_gemini
ManySkillElements ==
    [i \in 1..(MAX_SEARCH_ELEMENTS + 1) |->
        [category |-> "skill", value |-> "skill " \o ToString(i),
         weight |-> 15, display |-> "Skill " \o ToString(i)]]

ParseGeminiResponses == {
    [kind |-> "call_error"],
    [kind |-> "unparsable"],
    [kind |-> "json", json |->
        [search_elements |-> <<
            [category |-> "education", value |-> "mit", weight |-> 40,
             display |-> "Alumni: MIT"],
            [category |-> "company", value |-> "stripe", weight |-> 30,
             display |-> "Former Stripe"]>>]],
    [kind |-> "json", json |->
        [companies |-> <<"Stripe">>,
         search_elements |-> <<
            [category |-> "skill", value |-> "ai", weight |-> 15,
             display |-> "AI"],
            [category |-> "education", value |-> "mit", weight |-> 40,
             display |-> "Alumni: MIT"]>>]],
    [kind |-> "json", json |-> [search_elements |-> ManySkillElements]],
    [kind |-> "json", json |->
        [search_elements |-> <<
            [category |-> "keyword", weight |-> 5, display |-> "Founder"]>>]],
    [kind |-> "json", json |->
        [education |-> <<[institution |-> "MIT", degree |-> "BS"]>>,
         companies |-> <<"Stripe", "Meta">>,
         military_service |-> [branch |-> "army", academy |-> "",
                               veteran |-> TRUE],
         search_elements |-> <<>>]],
    [kind |-> "json", json |-> [email |-> "jane@example.com"]] }

\* the files handed to parse_resume_file; a file without pages or
\* paragraphs is one the PDF or DOCX reader fails on
SampleResume ==
    "Jane Doe\nStanford University, BS. Computer Science\n"
    \o "Google | Senior Engineer at Meta\n"
    \o "Skills: Python, React, AWS, Docker, SQL\n"
    \o "AWS Certified; PMP\nUS Army veteran, USMA"

Documents == {
    [filename |-> "cv.pdf", pages |-> <<SampleResume>>],
    [filename |-> "scan.PDF"],
    [filename |-> "CV.docx", paragraphs |-> <<"No military experience.",
                               "Developer at Stripe; MBA, Boston College">>],
    [filename |-> "old.doc"],
    [filename |-> "notes.txt", bytes |-> "Python and SQL"],
    [filename |-> "academy.txt",
     bytes |-> "Graduated from USAFA, served as Air Force officer"],
    [filename |-> "navy.txt", bytes |-> "US Navy veteran, 10 years of service"],
    [filename |-> "guard.txt", bytes |-> "Sergeant, National Guard"],
    [filename |-> "two.txt", bytes |-> "West Point, then Naval Academy"],
    [filename |-> "negated.txt",
     bytes |-> "Engineer with No Military experience; father was an Army colonel"],
    [filename |-> "civilian.txt", bytes |-> "Civilian instructor at West Point"],
    [filename |-> "twice.txt", bytes |-> "USAFA 2010. USAFA alumni board"],
    [filename |-> "empty.txt", bytes |-> ""] }

-----------------------------------------------------------------------------
(* The operations *)

-----------------------------------------------------------------------------
(* main.py: POST /api/messages/generate, and the message texts of         *)
(* ProfileAnalyzer.generate_enhanced_message                               *)

DAILY_MESSAGE_LIMIT == 3

\* str(profile) for a dict of strings whose keys were inserted in this order
ProfileKeys == <<"name", "headline", "company">>

RECURSIVE str_items(_, _)
str_items(d, keys) ==
    IF keys = <<>> THEN ""
    ELSE LET k == Head(keys)
             rest == str_items(d, Tail(keys))
         IN  IF k \notin DOMAIN d THEN rest
             ELSE "'" \o k \o "': '" \o d[k] \o "'"
                  \o (IF rest = "" THEN "" ELSE ", " \o rest)

str_dict(d) == "{" \o str_items(d, ProfileKeys) \o "}"

\* hashlib.md5(text.encode()).hexdigest(), tabulated for the payloads below
md5_hexdigest(text) ==
    CASE text = "{'name': 'Ann Lee', 'company': 'Acme'}"
           -> "2c720feb3833be9ac32a0c00b20a16e8"
      [] text = "{'name': 'Bo Diaz'}"
           -> "ad76f0a9682ae1533718c557fa244358"
      [] text = "{'name': 'Cy Roe', 'headline': 'Engineer', 'company': 'Globex'}"
           -> "c4a121e69b181e1bd61d872af18b54a4"

HexDigits == "0123456789abcdef"

HexDigit(c) == CHOOSE d \in 0..15 : SubSeq(HexDigits, d + 1, d + 1) = c

\* int(hex, 16) % n; the value itself needs 32 unsigned bits, so the
\* remainder is taken digit by digit
RECURSIVE HexMod(_, _)
HexMod(hex, n) ==
    IF hex = "" THEN 0
    ELSE (HexMod(SubSeq(hex, 1, Len(hex) - 1), n) * 16
          + HexDigit(SubSeq(hex, Len(hex), Len(hex)))) % n

\* name.split()[0]
FirstWord(s) ==
    LET t == Strip(s)
        gaps == {i \in 1..Len(t) : SubSeq(t, i, i) \in Whitespace}
    IN  IF gaps = {} THEN t
        ELSE SubSeq(t, 1, (CHOOSE i \in gaps : \A j \in gaps : i <= j) - 1)

\* name.split()[0] raises IndexError for a name of whitespace only
FirstWordRaises(profile) ==
    LET name == Get(profile, "name", "")
    IN  name # "" /\ Strip(name) = ""

\* main.py lines 718-722
templates(name, company, connection_point) == <<
    "Hi " \o name \o ", I noticed we both have experience with "
        \o connection_point
        \o ". Would love to connect and exchange insights about "
        \o company \o ".",
    "Hi " \o name \o ", your experience at " \o company
        \o " caught my attention. As someone with background in "
        \o connection_point \o ", I'd value connecting with you.",
    "Hi " \o name \o ", I see we share " \o connection_point
        \o ". Your work at " \o company
        \o " aligns with my interests. Let's connect!" >>

\* a selection that also counts the calls made so far
template_index_stateful(profile) ==
    (HexMod(SubSeq(md5_hexdigest(str_dict(profile)), 1, 8),
            Len(templates("", "", "")))
     + IF "user_1" \in DOMAIN usage_db THEN usage_db["user_1"].messages ELSE 0)
        % Len(templates("", "", ""))

\* lines 725-726: profile_hash % len(templates)
template_index(profile) ==
    HexMod(SubSeq(md5_hexdigest(str_dict(profile)), 1, 8),
           Len(templates("", "", "")))

\* lines 698-726
template_message(profile, score_data) ==
    LET name == IF Get(profile, "name", "") # ""
                THEN FirstWord(Get(profile, "name", "there"))
                ELSE "there"
        company == Get(profile, "company", "your company")
        matches == Take(Get(score_data, "matches", <<>>), 2)
        match_texts == [i \in 1..Len(matches) |->
                           Get(matches[i], "matches_element",
                               Get(matches[i], "text", ""))]
        connection_point == IF match_texts # <<>> THEN match_texts[1]
                            ELSE "shared interests"
    IN  templates(name, company, connection_point)[template_index(profile) + 1]

\* generate_enhanced_message lines 511-527, outside the try block: an
\* element of these categories is subscripted with "display"
EnhancedPromptRaises(user_background) ==
    \E i \in 1..Len(user_background) :
        /\ Get(user_background[i], "category", "")
               \in {"company", "education", "skill"}
        /\ "display" \notin DOMAIN user_background[i]

\* generate_enhanced_message lines 571-594, the except branch
enhanced_fallback_message(profile, analysis, user_background) ==
    LET name == IF Get(profile, "name", "") # ""
                THEN FirstWord(Get(profile, "name", ""))
                ELSE "there"
        companies == SelectSeq(user_background,
                        LAMBDA elem : Get(elem, "category", "") = "company")
        my_company == IF companies # <<>>
                      THEN "my experience at " \o companies[1]["display"]
                      ELSE "my work"
    IN  IF analysis["matches"] # <<>>
        THEN "Hi " \o name \o "! I noticed we share "
                 \o Get(analysis["matches"][1], "matches_element",
                        "similar interests")
                 \o ". Given " \o my_company
                 \o ", I'd love to connect and exchange insights!"
        ELSE "Hi " \o name \o "! Your background at "
                 \o Get(profile, "company", "your company")
                 \o " is impressive. With " \o my_company
                 \o ", I'd value connecting!"

\* the except branch subscripts analysis["matches"] and splits the name
EnhancedFallbackRaises(profile, analysis) ==
    \/ "matches" \notin DOMAIN analysis
    \/ FirstWordRaises(profile)

\* MessageGenerate.profile_data
MessageProfiles == {
    [name |-> "Bo Diaz"],
    [name |-> "Cy Roe", headline |-> "Engineer", company |-> "Globex"] }

\* MessageGenerate.score_data
MessageScores == {
    [connections |-> <<"USAFA Alumni", "Product Management">>],
    [score |-> 0, tier |-> "low", matches |-> <<>>],
    [score |-> 45, tier |-> "high",
     matches |-> <<[category |-> "military", found_in_profile |-> "USAFA",
                    matches_element |-> "USAFA Alumni", points |-> 45,
                    confidence |-> 90]>>] }

\* MessageGenerate.calendly_link, "" for None
CalendlyLinks == {"", "https://calendly.com/me"}

\* model.generate_content for the message prompt
GenerationResponses == {
    [kind |-> "text", text |-> " Fellow grad here, would love to connect. "],
    [kind |-> "raises"] }

\* the user whose token the requests carry
SessionUser == "user_1"

\* lines 335-339, 647-650: the counts of a user's first request of the day
ZeroUsage == [scores |-> 0, messages |-> 0]

\* before any request has been answered
NoReply == [op |-> "none", status |-> 0]

Users == {
    [id |-> "user_1", subscription_tier |-> "free", search_elements |-> <<>>],
    [id |-> "user_1", tier |-> "pro",
     background |-> [search_elements |->
         <<[category |-> "company", value |-> "google", weight |-> 25,
            display |-> "Worked at Google"]>>]] }

\* lines 640-643
user_tier(current_user) ==
    IF Get(current_user, "subscription_tier", "") # ""
    THEN current_user["subscription_tier"]
    ELSE Get(current_user, "tier", "free")

\* lines 670-675
user_search_elements(user) ==
    IF Get(user, "search_elements", <<>>) # <<>>
    THEN user["search_elements"]
    ELSE IF "background" \in DOMAIN user
    THEN Get(user["background"], "search_elements", <<>>)
    ELSE <<>>

\* lines 728-730
WithCalendly(message_text, calendly_link) ==
    IF calendly_link # ""
    THEN message_text \o "\n\nFeel free to book time directly: " \o calendly_link
    ELSE message_text

\* lines 664-746: the reply to a request that passed the daily limit
message_reply(current_user, profile, score_data, calendly_link, response) ==
    LET search_elements == user_search_elements(current_user)
        request == [profile_data |-> profile, score_data |-> score_data,
                    calendly_link |-> calendly_link]
        failed == request @@ [status |-> 500, path |-> "raised",
                              message |-> "", template |-> 0 - 1]
    IN  IF GEMINI_API_KEY
        THEN IF EnhancedPromptRaises(search_elements) THEN failed
             ELSE IF response.kind = "text"
             THEN request @@ [status |-> 200, path |-> "generated",
                              message |-> WithCalendly(Strip(response.text),
                                                       calendly_link),
                              template |-> 0 - 1]
             ELSE IF EnhancedFallbackRaises(profile, score_data) THEN failed
             ELSE request @@ [status |-> 200, path |-> "fallback",
                              message |-> WithCalendly(
                                  enhanced_fallback_message(profile, score_data,
                                                            search_elements),
                                  calendly_link),
                              template |-> 0 - 1]
        ELSE IF FirstWordRaises(profile) THEN failed
        ELSE request @@ [status |-> 200, path |-> "template",
                         message |-> WithCalendly(
                             template_message(profile, score_data), calendly_link),
                         template |-> template_index(profile)]

\* main.py lines 30, 49, 91-92: the module reads its configuration and
\* databases once, when the server process starts
Start_main ==
    /\ pc = "idle"
    /\ op' = "main"
    /\ pc' = "serving"
    /\ GEMINI_API_KEY' \in BOOLEAN
    /\ IS_PRODUCTION' \in BOOLEAN
    /\ \E current_user \in Users :
         users_db' = (current_user.id :> current_user)
    /\ usage_db' = <<>>
    /\ profiles_db' = <<>>
    /\ messages_db' = <<>>
    /\ last_reply' = NoReply
    /\ message_log' = <<>>
    /\ UNCHANGED <<api_key, use_langextract, analyzer_vars, parser_vars>>

\* POST /api/messages/generate by the authenticated user.  The calls and
\* replies are logged in the session opened by Start_main only.
generate_message ==
    /\ pc = "serving"
    /\ SessionUser \in DOMAIN users_db
    /\ Get(usage_db, SessionUser, ZeroUsage).messages < MaxCalls
    /\ \E profile \in MessageProfiles, score_data \in MessageScores,
          calendly_link \in CalendlyLinks, response \in GenerationResponses :
         LET current_user == users_db[SessionUser]
             daily_usage == Get(usage_db, SessionUser, ZeroUsage)
             free == user_tier(current_user) = "free"
             limited == /\ free
                        /\ IS_PRODUCTION
                        /\ daily_usage.messages >= DAILY_MESSAGE_LIMIT
             answer == IF limited
                       THEN [profile_data |-> profile, score_data |-> score_data,
                             calendly_link |-> calendly_link, status |-> 429,
                             path |-> "limit", message |-> "",
                             template |-> 0 - 1]
                       ELSE message_reply(current_user, profile, score_data,
                                          calendly_link, response)
         IN  /\ usage_db' =
                    IF ~free THEN usage_db
                    ELSE IF limited THEN Put(usage_db, SessionUser, daily_usage)
                    ELSE Put(usage_db, SessionUser,
                             [daily_usage EXCEPT !.messages = @ + 1])
             /\ last_reply' = [op |-> "generate_message",
                               status |-> answer.status,
                               subscription_tier |->
                                   Get(current_user, "subscription_tier", "")]
             /\ IF op # "main" THEN message_log' = message_log
                ELSE IF Len(message_log) < 2
                THEN message_log' = Append(message_log, answer)
                ELSE message_log' \in {<<message_log[1], answer>>,
                                       <<message_log[2], answer>>}
    /\ UNCHANGED <<api_key, use_langextract, op, pc, analyzer_vars, parser_vars,
                   GEMINI_API_KEY, IS_PRODUCTION, users_db, profiles_db,
                   messages_db>>

Init ==
    /\ api_key = FALSE
    /\ use_langextract = FALSE
    /\ op = "none"
    /\ pc = "idle"
    /\ stage = "none"
    /\ profiles = <<>>
    /\ elements = <<>>
    /\ results = <<>>
    /\ paths = <<>>
    /\ backend_calls = <<>>
    /\ parser = <<>>
    /\ resume = <<>>
    /\ resume_text = ""
    /\ parsed = <<>>
    /\ strategy = "none"
    /\ GEMINI_API_KEY = FALSE
    /\ IS_PRODUCTION = FALSE
    /\ users_db = <<>>
    /\ usage_db = <<>>
    /\ profiles_db = <<>>
    /\ messages_db = <<>>
    /\ last_reply = NoReply
    /\ message_log = <<>>

\* Bookkeeping of the model: no backend invoked yet for a profile, and one
\* more invocation of a backend for profile i
NoCalls == [extract |-> 0, generate |-> 0]

Counted(calls, i, backend) == [calls EXCEPT ![i][backend] = @ + 1]

\* analyze_profile lines 64-76: LangExtract first if enabled, else the prompt
StartPc == IF use_langextract THEN "langextract" ELSE "prompt"

\* the profile analyze_profile is working on
CurrentProfile == profiles[Len(results) + 1]

\* analyze_profile returns r; the batch loops go on to the next profile
Finish(r, pth) ==
    /\ results' = Append(results, r)
    /\ paths' = Append(paths, pth)
    /\ pc' = IF Len(results) + 1 < Len(profiles) THEN StartPc ELSE "done"
    /\ UNCHANGED <<server_vars, api_key, use_langextract, op, stage, profiles, elements, parser_vars>>

\* ProfileAnalyzer.__init__: the key is the argument or GEMINI_API_KEY;
\* without either the constructor raises ValueError
New_ProfileAnalyzer ==
    /\ pc = "idle"
    /\ \E api_key_arg, env_key, use_langextract_arg, available \in BOOLEAN :
         /\ api_key' = (api_key_arg \/ env_key)
         /\ use_langextract' = /\ (api_key_arg \/ env_key)
                                /\ use_langextract_arg
                                /\ available
         /\ pc' = IF api_key_arg \/ env_key THEN "constructed" ELSE "raised"
    /\ op' = "ProfileAnalyzer"
    /\ UNCHANGED <<analyzer_vars, parser_vars, server_vars>>

Call_analyze_profile ==
    /\ pc = "idle"
    /\ api_key
    /\ \E p \in Profiles, els \in ElementLists :
         /\ profiles' = <<p>>
         /\ elements' = els
    /\ op' = "analyze_profile"
    /\ stage' = "single"
    /\ pc' = StartPc
    /\ results' = <<>>
    /\ paths' = <<>>
    /\ backend_calls' = <<NoCalls>>
    /\ UNCHANGED <<server_vars, api_key, use_langextract, parser_vars>>

Call_fallback_scoring ==
    /\ pc = "idle"
    /\ api_key
    /\ \E p \in Profiles, els \in ElementLists :
         /\ profiles' = <<p>>
         /\ elements' = els
         /\ results' = <<fallback_scoring(p, els)>>
    /\ op' = "fallback_scoring"
    /\ stage' = "single"
    /\ pc' = "done"
    /\ paths' = <<"fallback">>
    /\ backend_calls' = <<NoCalls>>
    /\ UNCHANGED <<server_vars, api_key, use_langextract, parser_vars>>

\* analyze_profiles_batch lines 610-621
Call_analyze_profiles_batch ==
    /\ pc = "idle"
    /\ api_key
    /\ \E ps \in BatchProfileLists, els \in ElementLists :
         /\ profiles' = ps
         /\ elements' = els
         /\ pc' = IF ps = <<>> THEN "done"
                  ELSE IF use_langextract /\ Len(ps) > 1 THEN "batch_extract"
                  ELSE StartPc
         /\ stage' = IF ps = <<>> THEN "none"
                     ELSE IF use_langextract /\ Len(ps) > 1 THEN "batch"
                     ELSE "sequential"
         /\ backend_calls' = [i \in 1..Len(ps) |-> NoCalls]
    /\ op' = "analyze_profiles_batch"
    /\ results' = <<>>
    /\ paths' = <<>>
    /\ UNCHANGED <<server_vars, api_key, use_langextract, parser_vars>>

\* _batch_analyze_with_langextract lines 679-713
BatchResults(response) ==
    IF response.kind = "list"
    THEN [i \in 1..Min(Len(profiles), Len(response.items)) |->
            process_batch_result(response.items[i], profiles[i], elements)]
    ELSE [i \in 1..Len(profiles) |->
            process_batch_result(response.item, profiles[i], elements)]

BatchExtract ==
    /\ pc = "batch_extract"
    /\ \E response \in BatchExtractResponses(Len(profiles)) :
         IF response.kind = "raises"
         THEN /\ stage' = "individual"
              /\ pc' = StartPc
              /\ UNCHANGED <<results, paths>>
         ELSE /\ results' = BatchResults(response)
              /\ paths' = [i \in 1..Len(BatchResults(response)) |-> "langextract_batch"]
              /\ pc' = "done"
              /\ UNCHANGED stage
    /\ backend_calls' = [i \in 1..Len(profiles) |->
                            Counted(backend_calls, i, "extract")[i]]
    /\ UNCHANGED <<server_vars, api_key, use_langextract, op, profiles, elements, parser_vars>>

\* analyze_profile lines 65-73 with _analyze_with_langextract
LangExtractAttempt ==
    /\ pc = "langextract"
    /\ backend_calls' = Counted(backend_calls, Len(results) + 1, "extract")
    /\ \E response \in LangExtractResponses :
         IF response.kind = "raises"
         THEN /\ pc' = "prompt"
              /\ UNCHANGED <<server_vars, api_key, use_langextract, op, stage,
                             profiles, elements, results, paths, parser_vars>>
         ELSE Finish(LangExtractResult(response, elements), "langextract")

\* analyze_profile line 76, outside any try block.  Raised from the
\* individual loop of _batch_analyze_with_langextract (line 713) it is
\* caught at line 618 and the sequential loop starts over.
BuildPrompt ==
    /\ pc = "prompt"
    /\ IF ~BuildPromptRaises(elements)
       THEN /\ pc' = "gemini"
            /\ UNCHANGED <<stage, results, paths>>
       ELSE IF stage = "individual"
       THEN /\ stage' = "sequential"
            /\ pc' = StartPc
            /\ results' = <<>>
            /\ paths' = <<>>
       ELSE /\ pc' = "raised"
            /\ UNCHANGED <<stage, results, paths>>
    /\ UNCHANGED <<server_vars, api_key, use_langextract, op, profiles, elements,
                   backend_calls, parser_vars>>

\* analyze_profile lines 78-135
GeminiAttempt ==
    /\ pc = "gemini"
    /\ backend_calls' = Counted(backend_calls, Len(results) + 1, "generate")
    /\ \E response \in GeminiResponses :
         IF GeminiRaises(response)
         THEN Finish(fallback_scoring(CurrentProfile, elements), "fallback")
         ELSE Finish(GeminiResult(response), "gemini")

\* str.endswith
EndsWith(s, suffix) ==
    /\ Len(s) >= Len(suffix)
    /\ SubSeq(s, Len(s) - Len(suffix) + 1, Len(s)) = suffix

RECURSIVE JoinEach(_, _)
JoinEach(parts, terminator) ==
    IF parts = <<>> THEN ""
    ELSE Head(parts) \o terminator \o JoinEach(Tail(parts), terminator)

\* _extract_pdf_text and _extract_docx_text: any failure gives ""
extract_pdf_text(file) ==
    IF "pages" \in DOMAIN file THEN JoinEach(file.pages, "\n") ELSE ""

extract_docx_text(file) ==
    IF "paragraphs" \in DOMAIN file THEN JoinEach(file.paragraphs, "\n") ELSE ""

\* parse_resume lines 116-123
ExtractText(file) ==
    IF EndsWith(Lower(file.filename), ".pdf") THEN extract_pdf_text(file)
    ELSE IF \/ EndsWith(Lower(file.filename), ".docx")
            \/ EndsWith(Lower(file.filename), ".doc")
    THEN extract_docx_text(file)
    ELSE Get(file, "bytes", "")

\* ResumeParser.__init__; has_model stands for the attributes model and
\* gemini_api_key, which are set together
ResumeParser(use_gemini, use_langextract_arg, LANGEXTRACT_AVAILABLE, has_api_key) ==
    [use_gemini |-> use_gemini /\ has_api_key,
     use_langextract |-> /\ use_langextract_arg /\ LANGEXTRACT_AVAILABLE
                         /\ (use_gemini => has_api_key),
     has_model |-> use_gemini /\ has_api_key]

\* parse_resume lines 133 and 143: the strategy tried after LangExtract
GeminiOrPattern(p) ==
    IF p.use_gemini /\ p.has_model THEN "parse_gemini" ELSE "parse_text"

\* parse_resume_file up to the first strategy of parse_resume
Call_parse_resume_file ==
    /\ pc = "idle"
    /\ \E use_gemini, use_langextract_arg, available, has_api_key \in BOOLEAN,
          file \in Documents :
         LET p == ResumeParser(use_gemini, use_langextract_arg, available,
                               has_api_key)
         IN  /\ parser' = p
             /\ resume' = file
             /\ resume_text' = ExtractText(file)
             /\ pc' = IF p.use_langextract /\ p.has_model
                      THEN "parse_langextract" ELSE GeminiOrPattern(p)
    /\ op' = "parse_resume"
    /\ UNCHANGED <<server_vars, api_key, use_langextract, analyzer_vars, parsed, strategy>>

\* parse_resume lines 126-133 with _parse_with_langextract
ParseWithLangExtract ==
    /\ pc = "parse_langextract"
    /\ \E result \in ParseExtractResponses :
         IF ParseExtractRaises(result)
         THEN /\ pc' = GeminiOrPattern(parser)
              /\ UNCHANGED <<parsed, strategy>>
         ELSE /\ parsed' = parse_with_langextract(result, resume_text)
              /\ strategy' = "langextract"
              /\ pc' = "parsed"
    /\ UNCHANGED <<server_vars, api_key, use_langextract, op, analyzer_vars, parser,
                   resume, resume_text>>

\* parse_resume lines 136-143 with _parse_with_gemini
ParseWithGemini ==
    /\ pc = "parse_gemini"
    /\ \E response \in ParseGeminiResponses :
         IF ParseGeminiRaises(response)
         THEN /\ pc' = "parse_text"
              /\ UNCHANGED <<parsed, strategy>>
         ELSE /\ parsed' = parse_with_gemini(response, resume_text)
              /\ strategy' = "gemini"
              /\ pc' = "parsed"
    /\ UNCHANGED <<server_vars, api_key, use_langextract, op, analyzer_vars, parser,
                   resume, resume_text>>

\* parse_resume lines 143 and 146 with _parse_text
ParseText ==
    /\ pc = "parse_text"
    /\ \E company_order \in Orderings(extract_companies(Lower(resume_text))) :
         parsed' = parse_text(resume_text, company_order)
    /\ strategy' = "pattern"
    /\ pc' = "parsed"
    /\ UNCHANGED <<server_vars, api_key, use_langextract, op, analyzer_vars, parser,
                   resume, resume_text>>

-----------------------------------------------------------------------------
(* backend/main.py: accounts, resume upload, scoring, analysis, payments.  *)
(* A user record holds the keys the handlers read; name, password and      *)
(* created_at are left out: no handler below reads them.                   *)

MaxUsers == 2

MaxScores == 11

\* lines 345, 452, 563: the free tier's scoring requests per day
DAILY_SCORE_LIMIT == 10

\* a check that lets the request at the limit through
score_limit_passed(scores) == scores > DAILY_SCORE_LIMIT

\* lines 342-351: daily_usage["scores"] >= 10
score_limit_reached(scores) == scores >= DAILY_SCORE_LIMIT

\* lines 559-568: daily_usage["scores"] + profiles_count > 10
batch_exceeds_limit(scores, profiles_count) ==
    scores + profiles_count > DAILY_SCORE_LIMIT

\* lines 194-204: the record signup stores
new_user(user_id, user_data) ==
    [id |-> user_id,
     email |-> user_data.email,
     background |-> IF Truthy(user_data.background)
                    THEN user_data.background ELSE <<>>,
     subscription_tier |-> "free"]

\* a signup that does not look the email up
email_never_registered(db, email) == FALSE

\* lines 186-188
email_registered(db, email) ==
    \E uid \in DOMAIN db : Get(db[uid], "email", "") = email

\* UserSignup bodies; background None is <<>>
SignupRequests == {
    [email |-> "ann@x.io", background |-> <<>>],
    [email |-> "bo@x.io",
     background |-> [search_elements |->
         <<[category |-> "skill", value |-> "sql", weight |-> 10,
            display |-> "SQL"]>>]] }

\* the account of ann@x.io as signup stored it, with the background that
\* request carried
LoadedUsers ==
    "user_1" :> new_user("user_1",
        [email |-> "ann@x.io",
         background |-> [search_elements |->
             <<[category |-> "company", value |-> "google", weight |-> 25,
                display |-> "Worked at Google"]>>]])

LoadedScores == 8

LoadedMessages == 2

\* usage_db as load_db read it: the day's counts of that account
LoadedUsage ==
    "user_1" :> [scores |-> LoadedScores, messages |-> LoadedMessages]

\* lines 276-281
valid_file_type(filename) ==
    \E ext \in {".pdf", ".docx", ".doc", ".txt"} :
        EndsWith(Lower(filename), ext)

\* UploadFile
UploadFiles == {
    [filename |-> "navy.txt", bytes |-> "US Navy veteran, 10 years of service"],
    [filename |-> "empty.txt", bytes |-> ""],
    [filename |-> "photo.png", bytes |-> "PNG"] }

\* a generation answer to the resume prompt whose elements nothing validates
UploadGeminiResponses == {
    [kind |-> "json", json |->
        [search_elements |-> <<
            [category |-> "keyword", weight |-> 5, display |-> "Founder"]>>]] }

\* parse_resume_file by the pattern strategy, for each file
PatternParses ==
    [file \in UploadFiles |->
        {parse_text(ExtractText(file), company_order) :
            company_order \in
                Orderings(extract_companies(Lower(ExtractText(file))))}]

\* parse_resume_file by the generation strategy, for each file
GeminiParses ==
    [file \in UploadFiles |->
        {parse_with_gemini(response, ExtractText(file)) :
            response \in UploadGeminiResponses}]

\* parse_resume_file(content, filename, use_gemini=True): the generation
\* strategy needs the key; the pattern strategy is the last resort
ParseOutcomes(file) ==
    PatternParses[file]
    \cup (IF GEMINI_API_KEY THEN GeminiParses[file] ELSE {})

\* an upload that adds its elements to those the user already had
merged_search_elements(user, parsed_data) ==
    user_search_elements(user) \o Get(parsed_data, "search_elements", <<>>)

\* lines 293-302: what upload_resume writes into the user record
uploaded_search_elements(user, parsed_data) ==
    Get(parsed_data, "search_elements", <<>>)

\* lines 291-303
with_resume(user, parsed_data) ==
    LET search_elements == uploaded_search_elements(user, parsed_data)
        background == [companies |-> Get(parsed_data, "companies", <<>>),
                       skills |-> Get(parsed_data, "skills", <<>>),
                       education |-> Get(parsed_data, "education", <<>>),
                       military |-> Get(parsed_data, "military_service",
                                        NoneDict),
                       search_elements |-> search_elements]
    IN  Put(Put(Put(user, "resume_data", parsed_data),
                "background", background),
            "search_elements", search_elements)

\* ProfileScore.profile_data
ScoreProfiles == {
    [name |-> "Bo Diaz", headline |-> "Navy veteran, founder at Google"],
    [name |-> "Cy Roe", headline |-> "Engineer"] }

\* BatchProfileScore.profiles
BatchRequests == {
    <<[name |-> "Bo Diaz", headline |-> "Navy veteran, founder at Google"],
      [name |-> "Cy Roe", headline |-> "Engineer"]>>,
    <<[name |-> "Bo Diaz", headline |-> "Navy veteran, founder at Google"],
      [name |-> "Cy Roe", headline |-> "Engineer"],
      [name |-> "Bo Diaz", headline |-> "Navy veteran, founder at Google"]>> }

RECURSIVE json_items(_, _)
json_items(d, keys) ==
    IF keys = <<>> THEN ""
    ELSE LET k == Head(keys)
             rest == json_items(d, Tail(keys))
         IN  IF k \notin DOMAIN d THEN rest
             ELSE "\"" \o k \o "\": \"" \o d[k] \o "\""
                  \o (IF rest = "" THEN "" ELSE ", " \o rest)

\* json.dumps of a dict of plain strings, keys in insertion order
json_dumps(d) == "{" \o json_items(d, ProfileKeys) \o "}"

\* any(word in profile_text for word in words)
ContainsAny(words, profile_text) ==
    \E i \in 1..Len(words) : Contains(words[i], profile_text)

RECURSIVE SumWeights(_)
SumWeights(els) ==
    IF els = <<>> THEN 0 ELSE Head(els)["weight"] + SumWeights(Tail(els))

\* lines 383-395: the loop subscripts "value" of every element and
\* "weight", "category" and "display" of every matching one
ScoreLoopRaises(search_elements, profile_text) ==
    \E i \in 1..Len(search_elements) :
        \/ "value" \notin DOMAIN search_elements[i]
        \/ /\ Contains(Lower(search_elements[i]["value"]), profile_text)
           /\ ~({"weight", "category", "display"}
                    \subseteq DOMAIN search_elements[i])

\* lines 416-423
score_tier(score) ==
    IF score >= 70 THEN "platinum"
    ELSE IF score >= 50 THEN "gold"
    ELSE IF score >= 30 THEN "silver"
    ELSE "bronze"

\* lines 368-378: the scoring of a user without search elements
default_scoring(profile_text) ==
    LET leadership == ContainsAny(<<"ceo", "founder", "director", "vp">>,
                                  profile_text)
        ai == ContainsAny(<<"ai", "machine learning", "data science">>,
                          profile_text)
    IN  [score |-> (IF leadership THEN 20 ELSE 0) + (IF ai THEN 15 ELSE 0),
         connections |-> (IF leadership THEN <<"Leadership Role">> ELSE <<>>)
                         \o (IF ai THEN <<"AI/ML Background">> ELSE <<>>)]

\* lines 379-403: the scoring against the user's search elements
dynamic_scoring(search_elements, profile_text) ==
    LET matched_elements ==
            SelectSeq(search_elements,
                      LAMBDA element :
                          Contains(Lower(element["value"]), profile_text))
        strong == Len(matched_elements) >= 3
        shown == Take([i \in 1..Len(matched_elements) |->
                          matched_elements[i]["display"]], 3)
    IN  [score |-> SumWeights(matched_elements) + (IF strong THEN 10 ELSE 0),
         connections |-> shown \o (IF strong THEN <<"Strong Match">> ELSE <<>>)]

\* a handler that keeps the profile it scored
stored_profiles_kept(db, profile_data) ==
    Put(db, "profile_" \o ToString(Cardinality(DOMAIN db) + 1), profile_data)

\* lines 410-412: the handlers compute an id from profiles_db and store
\* nothing in it
stored_profiles(db, profile_data) == db

\* score_profile lines 341-423, given the day's count; the breakdown by
\* category is left out of the answer
score_answer(current_user, profile, scores) ==
    LET profile_text == Lower(json_dumps(profile))
        search_elements == user_search_elements(current_user)
    IN  IF IS_PRODUCTION /\ "subscription_tier" \notin DOMAIN current_user
        THEN [status |-> 500]
        ELSE IF /\ IS_PRODUCTION
                /\ current_user["subscription_tier"] = "free"
                /\ score_limit_reached(scores)
        THEN [status |-> 429,
              detail |-> "Daily limit reached. Upgrade to Pro for unlimited scoring."]
        ELSE IF ScoreLoopRaises(search_elements, profile_text)
        THEN [status |-> 500]
        ELSE LET scored == IF search_elements = <<>>
                           THEN default_scoring(profile_text)
                           ELSE dynamic_scoring(search_elements, profile_text)
             IN  [status |-> 200,
                  profile_id |-> "profile_"
                      \o ToString(Cardinality(DOMAIN profiles_db) + 1),
                  score |-> Min(scored.score, 100),
                  connections |-> scored.connections,
                  tier |-> score_tier(scored.score)]

\* what every reply records of its request: the handler, the caller's
\* subscription tier, the day's scores before it and the scores it asked for
Receipt(handler, current_user, daily_usage, asked) ==
    [op |-> handler,
     subscription_tier |-> Get(current_user, "subscription_tier", ""),
     used |-> daily_usage.scores,
     asked |-> asked]

\* the day's counts after a request that asked for n scores
Charged(daily_usage, answer, n) ==
    IF answer.status = 200 /\ "error" \notin DOMAIN answer
    THEN [daily_usage EXCEPT !.scores = @ + n]
    ELSE daily_usage

\* which backend answered analyze_profile
AnalysisPaths == {"langextract", "fallback"}

\* extract() reporting the profile's employer
EmployerExtraction ==
    [kind |-> "document",
     data |-> [matches |-> <<[text |-> "Google", confidence |-> 90]>>]]

\* analyzer.analyze_profile: LangExtract answers, or it fails and so does
\* the generation call after the prompt was built
analysis_by(path, profile, search_elements) ==
    IF path = "langextract"
    THEN [kind |-> "result",
          analysis |-> LangExtractResult(EmployerExtraction, search_elements)]
    ELSE IF BuildPromptRaises(search_elements)
    THEN [kind |-> "raises"]
    ELSE [kind |-> "result",
          analysis |-> fallback_scoring(profile, search_elements)]

\* lines 481-495, 587-600: analyze_profile or generate_enhanced_message raises
AnalysisRaises(outcome, profile, search_elements, response) ==
    \/ outcome.kind = "raises"
    \/ EnhancedPromptRaises(search_elements)
    \/ /\ response.kind = "raises"
       /\ EnhancedFallbackRaises(profile, outcome.analysis)

\* POST /api/auth/signup
signup ==
    /\ pc = "serving"
    /\ \E user_data \in SignupRequests :
         LET user_id == "user_" \o ToString(Cardinality(DOMAIN users_db) + 1)
             refused == email_registered(users_db, user_data.email)
         IN  /\ refused \/ Cardinality(DOMAIN users_db) < MaxUsers
             /\ users_db' = IF refused THEN users_db
                            ELSE Put(users_db, user_id,
                                     new_user(user_id, user_data))
             /\ last_reply' =
                    [op |-> "signup", email |-> user_data.email,
                     users |-> Cardinality(DOMAIN users_db)]
                    @@ (IF refused
                        THEN [status |-> 400,
                              detail |-> "Email already registered"]
                        ELSE [status |-> 200, user_id |-> user_id])
    /\ UNCHANGED <<api_key, use_langextract, op, pc, analyzer_vars, parser_vars,
                   GEMINI_API_KEY, IS_PRODUCTION, usage_db, profiles_db,
                   messages_db, message_log>>

\* POST /api/resume/upload by the authenticated user
upload_resume ==
    /\ pc = "serving"
    /\ SessionUser \in DOMAIN users_db
    /\ \E file \in UploadFiles :
         IF ~valid_file_type(file.filename)
         THEN /\ last_reply' = [op |-> "upload_resume", status |-> 400,
                                filename |-> file.filename]
              /\ users_db' = users_db
         ELSE \E parsed_data \in ParseOutcomes(file) :
                /\ users_db' = Put(users_db, SessionUser,
                                   with_resume(users_db[SessionUser],
                                               parsed_data))
                /\ last_reply' = [op |-> "upload_resume", status |-> 200,
                                  filename |-> file.filename]
    /\ UNCHANGED <<api_key, use_langextract, op, pc, analyzer_vars, parser_vars,
                   GEMINI_API_KEY, IS_PRODUCTION, usage_db, profiles_db,
                   messages_db, message_log>>

\* the handler's last steps: the day's counts are stored and the answer sent
Respond(handler, current_user, daily_usage, asked, answer) ==
    /\ usage_db' = Put(usage_db, SessionUser,
                       Charged(daily_usage, answer, asked))
    /\ last_reply' = Receipt(handler, current_user, daily_usage, asked)
                     @@ answer

\* POST /api/profiles/score by the authenticated user
score_profile ==
    /\ pc = "serving"
    /\ SessionUser \in DOMAIN users_db
    /\ Get(usage_db, SessionUser, ZeroUsage).scores < MaxScores
    /\ \E profile \in ScoreProfiles :
         /\ Respond("score_profile", users_db[SessionUser],
                    Get(usage_db, SessionUser, ZeroUsage), 1,
                    score_answer(users_db[SessionUser], profile,
                                 Get(usage_db, SessionUser, ZeroUsage).scores))
         /\ profiles_db' = stored_profiles(profiles_db, profile)
    /\ UNCHANGED <<api_key, use_langextract, op, pc, analyzer_vars, parser_vars,
                   GEMINI_API_KEY, IS_PRODUCTION, users_db, messages_db,
                   message_log>>

\* lines 505-514: the answer of a successful analysis
analysis_answer(analysis) ==
    [status |-> 200,
     profile_id |-> "profile_" \o ToString(Cardinality(DOMAIN profiles_db) + 1),
     score |-> analysis.score,
     tier |-> analysis.tier,
     matches |-> analysis.matches]

\* analyze_profile_llm lines 432-519, given the day's count and what the
\* analyzer and the message generation do
analyze_answer(current_user, profile, scores, outcome, response) ==
    IF /\ GEMINI_API_KEY
       /\ IS_PRODUCTION
       /\ Get(current_user, "tier", "free") = "free"
       /\ score_limit_reached(scores)
    THEN [status |-> 429,
          detail |-> "Daily limit reached. Upgrade to Pro for unlimited scoring."]
    ELSE IF /\ GEMINI_API_KEY
            /\ user_search_elements(current_user) # <<>>
            /\ ~AnalysisRaises(outcome, profile,
                               user_search_elements(current_user), response)
    THEN analysis_answer(outcome.analysis)
    ELSE score_answer(current_user, profile, scores)

\* POST /api/profiles/analyze by the authenticated user
analyze_profile_llm ==
    /\ pc = "serving"
    /\ SessionUser \in DOMAIN users_db
    /\ Get(usage_db, SessionUser, ZeroUsage).scores < MaxScores
    /\ \E profile \in ScoreProfiles, path \in AnalysisPaths,
          response \in GenerationResponses :
         /\ Respond("analyze_profile_llm", users_db[SessionUser],
                    Get(usage_db, SessionUser, ZeroUsage), 1,
                    analyze_answer(
                        users_db[SessionUser], profile,
                        Get(usage_db, SessionUser, ZeroUsage).scores,
                        analysis_by(path, profile,
                            user_search_elements(users_db[SessionUser])),
                        response))
         /\ profiles_db' = stored_profiles(profiles_db, profile)
    /\ UNCHANGED <<api_key, use_langextract, op, pc, analyzer_vars, parser_vars,
                   GEMINI_API_KEY, IS_PRODUCTION, users_db, messages_db,
                   message_log>>

\* lines 581-617: the tier of one profile's result, "low" with the error
\* result of a profile whose analysis raised
batch_result(outcome, profile, search_elements, response) ==
    IF AnalysisRaises(outcome, profile, search_elements, response)
    THEN [tier |-> "low", error |-> TRUE]
    ELSE [tier |-> outcome.analysis.tier, error |-> FALSE]

\* lines 623-627
batch_answer(batch_results) ==
    [status |-> 200,
     tiers |-> [i \in 1..Len(batch_results) |-> batch_results[i].tier],
     processed_count |-> Len(batch_results),
     success_count |-> Cardinality({i \in 1..Len(batch_results) :
                                       ~batch_results[i].error})]

\* POST /api/profiles/analyze/batch by the authenticated user
analyze_profiles_batch ==
    /\ pc = "serving"
    /\ SessionUser \in DOMAIN users_db
    /\ \E batch \in BatchRequests, path \in AnalysisPaths,
          response \in GenerationResponses :
         LET current_user == users_db[SessionUser]
             daily_usage == Get(usage_db, SessionUser, ZeroUsage)
             search_elements == user_search_elements(current_user)
         IN  /\ daily_usage.scores + Len(batch) <= MaxScores
             /\ IF ~GEMINI_API_KEY \/ search_elements = <<>>
                THEN /\ usage_db' = usage_db
                     /\ last_reply' =
                            Receipt("analyze_profiles_batch", current_user,
                                    daily_usage, Len(batch))
                            @@ [status |-> 200,
                                error |-> IF ~GEMINI_API_KEY
                                          THEN "LLM analysis not available"
                                          ELSE "No resume data found. Please upload your resume first."]
                ELSE IF /\ IS_PRODUCTION
                        /\ Get(current_user, "tier", "free") = "free"
                        /\ batch_exceeds_limit(daily_usage.scores, Len(batch))
                THEN Respond("analyze_profiles_batch", current_user,
                             daily_usage, Len(batch),
                             [status |-> 429,
                              detail |-> "Batch analysis would exceed daily limit."])
                ELSE Respond("analyze_profiles_batch", current_user,
                             daily_usage, Len(batch),
                             batch_answer(
                                 [i \in 1..Len(batch) |->
                                     batch_result(
                                         analysis_by(path, batch[i],
                                                     search_elements),
                                         batch[i], search_elements,
                                         response)]))
             /\ profiles_db' = stored_profiles(profiles_db, batch[1])
    /\ UNCHANGED <<api_key, use_langextract, op, pc, analyzer_vars, parser_vars,
                   GEMINI_API_KEY, IS_PRODUCTION, users_db, messages_db,
                   message_log>>

\* stripe.Webhook.construct_event: a verified event, or one it rejects
StripeEvents == {
    [type |-> "checkout.session.completed", client_reference_id |-> "user_1",
     customer |-> "cus_1", subscription |-> "sub_1"],
    [type |-> "checkout.session.completed", client_reference_id |-> "user_9",
     customer |-> "cus_9", subscription |-> "sub_9"],
    [type |-> "customer.subscription.deleted", id |-> "sub_1"],
    [type |-> "invoice.paid"],
    [type |-> "invalid"] }

\* lines 805-814; the ids of the stored users are distinct, so the loop's
\* first hit is its only one
checkout_completed(db, session) ==
    LET hits == {uid \in DOMAIN db : db[uid]["id"] = session.client_reference_id}
    IN  IF hits = {} THEN db
        ELSE LET uid == CHOOSE u \in hits : TRUE
             IN  Put(db, uid,
                     Put(Put(Put(db[uid], "subscription_tier", "pro"),
                             "stripe_customer_id", session.customer),
                         "stripe_subscription_id", session.subscription))

\* lines 816-824
subscription_deleted(db, subscription) ==
    LET hits == {uid \in DOMAIN db :
                    Get(db[uid], "stripe_subscription_id", "") = subscription.id}
    IN  IF hits = {} THEN db
        ELSE LET uid == CHOOSE u \in hits : TRUE
             IN  Put(db, uid, Put(db[uid], "subscription_tier", "free"))

\* POST /api/payments/webhook
stripe_webhook ==
    /\ pc = "serving"
    /\ \E event \in StripeEvents :
         /\ users_db' =
                IF event.type = "checkout.session.completed"
                THEN checkout_completed(users_db, event)
                ELSE IF event.type = "customer.subscription.deleted"
                THEN subscription_deleted(users_db, event)
                ELSE users_db
         /\ last_reply' = [op |-> "stripe_webhook", type |-> event.type,
                           status |-> IF event.type = "invalid" THEN 400
                                      ELSE 200]
    /\ UNCHANGED <<api_key, use_langextract, op, pc, analyzer_vars, parser_vars,
                   GEMINI_API_KEY, IS_PRODUCTION, usage_db, profiles_db,
                   messages_db, message_log>>

Return ==
    /\ pc \in {"done", "raised", "parsed", "constructed", "serving"}
    /\ op' = "none"
    /\ pc' = "idle"
    /\ stage' = "none"
    /\ profiles' = <<>>
    /\ elements' = <<>>
    /\ results' = <<>>
    /\ paths' = <<>>
    /\ backend_calls' = <<>>
    /\ parser' = <<>>
    /\ resume' = <<>>
    /\ resume_text' = ""
    /\ parsed' = <<>>
    /\ strategy' = "none"
    /\ GEMINI_API_KEY' = FALSE
    /\ IS_PRODUCTION' = FALSE
    /\ users_db' = <<>>
    /\ usage_db' = <<>>
    /\ profiles_db' = <<>>
    /\ messages_db' = <<>>
    /\ last_reply' = NoReply
    /\ message_log' = <<>>
    /\ UNCHANGED <<api_key, use_langextract>>

Next ==
    \/ New_ProfileAnalyzer
    \/ Call_parse_resume_file
    \/ ParseWithLangExtract
    \/ ParseWithGemini
    \/ ParseText
    \/ Call_analyze_profile
    \/ Call_fallback_scoring
    \/ Call_analyze_profiles_batch
    \/ BatchExtract
    \/ LangExtractAttempt
    \/ BuildPrompt
    \/ GeminiAttempt
    \/ Start_main
    \/ generate_message
    \/ Return

Spec == Init /\ [][Next]_vars

\* the server process after main.py has read its configuration and its
\* databases (lines 30, 49, 89-92), in the course of a day's traffic
ServerInit ==
    /\ api_key = FALSE
    /\ use_langextract = FALSE
    /\ op = "server"
    /\ pc = "serving"
    /\ stage = "none"
    /\ profiles = <<>>
    /\ elements = <<>>
    /\ results = <<>>
    /\ paths = <<>>
    /\ backend_calls = <<>>
    /\ parser = <<>>
    /\ resume = <<>>
    /\ resume_text = ""
    /\ parsed = <<>>
    /\ strategy = "none"
    /\ GEMINI_API_KEY \in BOOLEAN
    /\ IS_PRODUCTION \in BOOLEAN
    /\ users_db = LoadedUsers
    /\ usage_db = LoadedUsage
    /\ profiles_db = <<>>
    /\ messages_db = <<>>
    /\ last_reply = NoReply
    /\ message_log = <<>>

ServerNext ==
    \/ signup
    \/ upload_resume
    \/ score_profile
    \/ analyze_profile_llm
    \/ analyze_profiles_batch
    \/ generate_message
    \/ stripe_webhook

ServerSpec == ServerInit /\ [][ServerNext]_vars

-----------------------------------------------------------------------------
(* Properties of the profile matcher *)

Returned == pc = "done"

\* every element carries the four keys the extractor gives it
WellFormed(els) ==
    \A i \in 1..Len(els) :
        {"category", "value", "weight", "display"} \subseteq DOMAIN els[i]

RECURSIVE SumOver(_, _)
SumOver(f, S) ==
    IF S = {} THEN 0
    ELSE LET x == CHOOSE y \in S : TRUE IN f[x] + SumOver(f, S \ {x})

\* C1: the score of every result analyze_profile returns lies in 0..100,
\* whichever path produced it (stated here for well-formed element lists).
C1_ScoreBound ==
    (Returned /\ op = "analyze_profile" /\ WellFormed(elements)) =>
        \A i \in 1..Len(results) : results[i].score >= 0 /\ results[i].score <= 100

\* C2: every Match in the list analyze_profile returns has confidence of at
\* least 0.3 (a Match without a confidence field counting as 1.0; stated
\* here for well-formed element lists).
C2_ConfidenceGate ==
    (Returned /\ op = "analyze_profile" /\ WellFormed(elements)) =>
        \A i \in 1..Len(results) : \A k \in 1..Len(results[i].matches) :
            Get(results[i].matches[k], "confidence", 100) >= 30

\* a null-sentinel as the glossary has it: a literal or near-literal
\* "no match" marker, trimmed and case-folded
IsNullSentinel(found) ==
    LET t == Lower(Strip(found))
    IN  \/ t \in {"null", "none", "n/a", "", "none found"}
        \/ Contains("no direct mention", t)
        \/ Contains("nothing states", t)

\* C3: no Match whose found_in_profile is a null-sentinel (or is absent) is
\* among the matches analyze_profile returns from a primary path (stated
\* here for well-formed element lists).
C3_NoNullSentinel ==
    (Returned /\ op = "analyze_profile" /\ WellFormed(elements)) =>
        \A i \in 1..Len(results) :
            paths[i] \in {"gemini", "langextract"} =>
                \A k \in 1..Len(results[i].matches) :
                    ~IsNullSentinel(Get(results[i].matches[k], "found_in_profile", ""))

\* C4: in every result of analyze_profile, analyze_profiles_batch and
\* _fallback_scoring, tier is "high" iff score >= 40, "medium" iff
\* 20 <= score < 40, and "low" otherwise.
C4_TierConsistency ==
    \A i \in 1..Len(results) :
        /\ results[i].tier \in {"high", "medium", "low"}
        /\ results[i].tier = "high" <=> results[i].score >= 40
        /\ results[i].tier = "medium" <=>
              (results[i].score >= 20 /\ results[i].score < 40)

C4_Witness ==
    /\ Returned
    /\ op = "analyze_profiles_batch"
    /\ Len(results) = 2
    /\ results[1].score = 40
    /\ results[1].tier = "high"
    /\ results[2].tier = "low"

\* C5: in every result of analyze_profile and of the batch processing, score
\* is min(100, sum of points over exactly the returned matches) (stated here
\* for well-formed element lists).
C5_ScoreIsSumOfReturned ==
    (Returned /\ op \in {"analyze_profile", "analyze_profiles_batch"}
       /\ WellFormed(elements)) =>
        \A i \in 1..Len(results) :
            LET ms == results[i].matches
                total == SumOver([k \in 1..Len(ms) |-> ms[k].points], 1..Len(ms))
            IN  results[i].score = IF total > 100 THEN 100 ELSE total

\* C6: analyze_profile never raises to its caller, and a result that comes
\* from a backend failure is that of _fallback_scoring on the same inputs.
C6_NeverRaises ==
    op = "analyze_profile" =>
        /\ pc # "raised"
        /\ (Returned /\ paths[1] = "fallback") =>
              results[1] = fallback_scoring(profiles[1], elements)

\* the indices of the elements whose lower-cased value occurs in the
\* lower-cased text, headline and about of p, joined by single spaces
SubstringHits(p, els) ==
    {i \in 1..Len(els) :
        Contains(Lower(Get(els[i], "value", "")),
                 Lower(p.text \o " " \o p.headline \o " " \o p.about))}

\* the k-th smallest member of a set of indices
Nth(S, k) == CHOOSE i \in S : Cardinality({j \in S : j < i}) = k - 1

\* C7: _fallback_scoring emits one Match per element whose lower-cased value
\* is a substring of the lower-cased profile text, in element order, with
\* points equal to the element's weight, and score is the sum of those
\* weights capped at 100; usafa/45 against "graduated USAFA" gives 45, high.
C7_FallbackSubstring ==
    \A i \in 1..Len(results) :
        paths[i] = "fallback" =>
            LET hits == SubstringHits(profiles[i], elements)
                ms == results[i].matches
                total == SumOver([k \in hits |-> elements[k].weight], hits)
            IN  /\ Len(ms) = Cardinality(hits)
                /\ \A k \in 1..Len(ms) :
                      /\ ms[k].points = elements[Nth(hits, k)].weight
                      /\ ms[k].matches_element = elements[Nth(hits, k)].display
                /\ results[i].score = IF total > 100 THEN 100 ELSE total
                /\ ( /\ Len(elements) = 1
                     /\ elements[1].weight = 45
                     /\ Get(elements[1], "value", "") = "usafa"
                     /\ profiles[i].text = "graduated USAFA" )
                   => ( /\ results[i].score = 45
                        /\ results[i].tier = "high"
                        /\ Len(ms) = 1
                        /\ ms[1].points = 45 )

C7_Witness ==
    /\ Returned
    /\ op = "fallback_scoring"
    /\ Len(elements) = 1
    /\ Get(elements[1], "value", "") = "usafa"
    /\ profiles[1].text = "graduated USAFA"
    /\ results[1].score = 45
    /\ results[1].tier = "high"

\* C8: with an empty search-element list analyze_profile and
\* _fallback_scoring return score 0, tier "low" and no matches.
C8_EmptyElements ==
    (Returned /\ op \in {"analyze_profile", "fallback_scoring"}
       /\ elements = <<>>) =>
        \A i \in 1..Len(results) :
            /\ results[i].score = 0
            /\ results[i].tier = "low"
            /\ results[i].matches = <<>>

\* parse_resume has returned
Parsed == pc = "parsed"

\* C9: the search_elements list parse_resume returns never has more than
\* 15 elements, whichever strategy (LangExtract, Gemini, pattern) built it.
C9_ElementCap ==
    Parsed => Len(parsed["search_elements"]) <= MAX_SEARCH_ELEMENTS

\* C10: the search_elements list parse_resume returns is ordered by
\* non-increasing weight, whichever strategy built it: no element is
\* followed by one of strictly greater weight.
C10_SortedByWeight ==
    Parsed =>
        \A i, j \in 1..Len(parsed["search_elements"]) :
            i < j => parsed["search_elements"][i]["weight"]
                       >= parsed["search_elements"][j]["weight"]

\* the table the weight of an element is read from, by category
TableWeight(category, has_academy) ==
    CASE category = "education" -> 30
      [] category = "company" -> 25
      [] category = "military" -> IF has_academy THEN 40 ELSE 30
      [] category = "certification" -> 15
      [] category = "skill" -> 10
      [] category = "keyword" -> 5

TableCategories ==
    {"education", "company", "military", "certification", "skill", "keyword"}

\* C11: whichever strategy built them, the elements parse_resume returns
\* carry the weight of one table (education 30, company 25, military
\* academy 40, military branch 30, certification 15, skill 10, keyword 5),
\* with at most one military element, the academy before the branch.
C11_WeightTable ==
    Parsed =>
        LET found == parsed["search_elements"]
            has_academy == Get(parsed["military_service"], "academy", "") # ""
        IN  /\ Cardinality({i \in 1..Len(found) :
                               found[i]["category"] = "military"}) <= 1
            /\ \A i \in 1..Len(found) :
                 found[i]["category"] \in TableCategories =>
                     found[i]["weight"]
                        = TableWeight(found[i]["category"], has_academy)

\* some member of the word list occurs in the text
Occurs(word_list, text) ==
    \E i \in 1..Len(word_list) : Contains(word_list[i], text)

MilitaryElements(found) ==
    SelectSeq(found, LAMBDA e : e["category"] = "military")

\* C12: in the pattern strategy a negation marker in the resume text gives
\* no military record and no military search element, whatever military
\* keywords the text holds; without a marker, a military keyword gives a
\* record with veteran = true, a branch when a branch keyword occurs and an
\* academy when an academy keyword occurs.
C12_MilitaryNegation ==
    (Parsed /\ strategy = "pattern") =>
        LET lowered == Lower(resume_text)
            record == parsed["military_service"]
        IN  /\ Occurs(negative_patterns, lowered) =>
                 /\ ~Truthy(record)
                 /\ MilitaryElements(parsed["search_elements"]) = <<>>
            /\ (~Occurs(negative_patterns, lowered)
                  /\ Occurs(military_keywords, lowered)) =>
                 /\ Truthy(record)
                 /\ record["veteran"] = TRUE
                 /\ Occurs(branch_names, lowered) => "branch" \in DOMAIN record
                 /\ Occurs(academy_names, lowered) => "academy" \in DOMAIN record

C12_Witness ==
    /\ Parsed
    /\ strategy = "pattern"
    /\ Occurs(negative_patterns, Lower(resume_text))
    /\ Occurs(military_keywords, Lower(resume_text))
    /\ ~Truthy(parsed["military_service"])
    /\ MilitaryElements(parsed["search_elements"]) = <<>>

ElementKeys == {"category", "value", "weight", "display"}

\* C13: parse_resume never raises when a generation strategy is missing,
\* fails or answers with unparsable or incomplete output; it falls through
\* to the next strategy and returns a record whose search_elements is a
\* list of elements that each carry category, value, weight and display.
C13_ParseFallthrough ==
    /\ op = "parse_resume" => pc # "raised"
    /\ Parsed =>
         \A i \in 1..Len(parsed["search_elements"]) :
             ElementKeys \subseteq DOMAIN parsed["search_elements"][i]

\* the bytes cannot be read as the kind of document the file name declares
Unreadable(file) ==
    \/ /\ EndsWith(Lower(file.filename), ".pdf")
       /\ "pages" \notin DOMAIN file
    \/ /\ \/ EndsWith(Lower(file.filename), ".docx")
          \/ EndsWith(Lower(file.filename), ".doc")
       /\ "paragraphs" \notin DOMAIN file

\* C14: parsing bytes that cannot be read as the declared kind of document
\* (a corrupt PDF or DOCX) fails with an error that reaches the caller; it
\* does not complete with an empty text and an empty or made-up element list.
C14_DocumentFormatError ==
    (op = "parse_resume" /\ Unreadable(resume)) => pc # "parsed"

\* C15: with no generation credential configured neither layer raises:
\* parsing a resume gives the pattern-strategy result, and constructing
\* the ProfileAnalyzer succeeds so that matching can use the fallback.
C15_NoCredentialFallback ==
    /\ (op = "parse_resume" /\ ~parser.has_model) =>
          /\ pc # "raised"
          /\ Parsed => /\ strategy = "pattern"
                       /\ parsed = parse_text(resume_text, parsed["companies"])
    /\ (op = "ProfileAnalyzer" /\ ~api_key) => pc # "raised"

\* C16: analyze_profiles_batch returns one result per input profile, in
\* the order of the input (an empty input gives an empty output), whatever
\* the batch extraction call hands back: a list of any length or one object.
C16_BatchAligned ==
    (Returned /\ op = "analyze_profiles_batch" /\ WellFormed(elements)) =>
        /\ Len(results) = Len(profiles)
        /\ \A i \in 1..Len(results) :
             "profile_name" \in DOMAIN results[i] =>
                 results[i]["profile_name"] = profiles[i]["name"]

\* C17: in analyze_profiles_batch a failure while one profile is evaluated
\* never aborts the batch: the call returns, and the profile that failed
\* has a result with score 0, tier "low", no matches and an error message.
C17_BatchItemFailure ==
    op = "analyze_profiles_batch" =>
        /\ pc # "raised"
        /\ Returned =>
             \A i \in 1..Len(results) :
                 "error" \in DOMAIN results[i] =>
                     /\ results[i]["score"] = 0
                     /\ results[i]["tier"] = "low"
                     /\ results[i]["matches"] = <<>>

\* The institution or company that an extracted text names ("" when it names
\* none), over the texts that extract() returns in this model.
NamedEntity(text) ==
    LET t == Lower(text)
    IN  IF t \in {"stanford", "stanford university"} THEN "stanford university"
        ELSE IF t \in {"johns hopkins", "johns hopkins university"}
        THEN "johns hopkins university"
        ELSE IF t = "ford" THEN "ford motor company"
        ELSE IF t \in {"usafa", "air force academy"} THEN "usafa"
        ELSE ""

\* The matches that _find_matching_element produced
EntityStepResult(r) ==
    /\ "extraction_method" \in DOMAIN r
    /\ r.extraction_method \in {"langextract", "langextract_batch"}

\* C18: the entity-matching step never returns an education or company
\* element for extracted text that names a different institution or company:
\* every match of such an element was found in text naming that element's
\* entity (or naming none).
C18_SameEntityOnly ==
    Returned =>
        \A k \in 1..Len(results) :
            EntityStepResult(results[k]) =>
                \A j \in 1..Len(results[k].matches) :
                    \A i \in 1..Len(elements) :
                        LET match == results[k].matches[j]
                        IN  (/\ elements[i].display = match.matches_element
                             /\ elements[i].category \in {"education", "company"}
                             /\ "value" \in DOMAIN elements[i]
                             /\ NamedEntity(match.found_in_profile) # "")
                            => NamedEntity(match.found_in_profile)
                                   = elements[i].value

BoDiaz ==
    [name |-> "Bo Diaz", text |-> "Air Force veteran",
     headline |-> "Engineer", about |-> ""]

\* extract() reporting the profile's service record
AirForceExtraction ==
    [kind |-> "document",
     data |-> [matches |-> <<[text |-> "Air Force veteran", confidence |-> 90]>>]]

NavyAtFullWeight(r) ==
    \E j \in 1..Len(r.matches) :
        /\ r.matches[j].matches_element = "Navy Veteran"
        /\ r.matches[j].points = 30

\* C19: for the search element {military, "navy"} and the profile "Air Force
\* veteran", the primary matcher, once the service record is extracted,
\* registers a match of the navy element at its full weight, and the
\* fallback matcher registers none.
C19_CrossBranch ==
    (/\ op = "analyze_profile"
     /\ pc = "langextract"
     /\ profiles = <<BoDiaz>>
     /\ \E i \in 1..Len(elements) : elements[i].display = "Navy Veteran")
    => /\ AirForceExtraction \in LangExtractResponses
       /\ NavyAtFullWeight(LangExtractResult(AirForceExtraction, elements))
       /\ ~NavyAtFullWeight(fallback_scoring(BoDiaz, elements))

\* C19, the fallback half alone
C19_FallbackHalf ==
    (/\ Returned
     /\ profiles = <<BoDiaz>>
     /\ paths = <<"fallback">>)
    => ~NavyAtFullWeight(results[1])

\* the template and the except-branch replies, which no generation call wrote
FallbackReply(reply) ==
    reply.status = 200 /\ reply.path \in {"template", "fallback"}

C21_MessageAlwaysReturned ==
    \A i \in 1..Len(message_log) :
        message_log[i].status # 429
            => /\ message_log[i].status = 200
               /\ message_log[i].message # ""

\* C27: every match of a returned result has the points of the search
\* element it matched, the element of the user's list whose display text is
\* its matches_element: points equal that element's weight.
C27_PointsAreWeights ==
    Returned =>
        \A k \in 1..Len(results) :
            \A j \in 1..Len(results[k].matches) :
                \A i \in 1..Len(elements) :
                    LET match == results[k].matches[j]
                    IN  (/\ {"matches_element", "points"} \subseteq DOMAIN match
                         /\ {"display", "weight"} \subseteq DOMAIN elements[i]
                         /\ elements[i].display = match.matches_element)
                        => match.points = elements[i].weight

\* C26: for each profile evaluated by analyze_profile or through
\* analyze_profiles_batch, each generation backend (extract,
\* generate_content) is invoked at most once, a failure is never retried,
\* and the call ends with a result, never with an exception.
C26_NoRetry ==
    (/\ op \in {"analyze_profile", "analyze_profiles_batch"}
     /\ WellFormed(elements))
    => /\ pc # "raised"
       /\ \A i \in 1..Len(backend_calls) :
              /\ backend_calls[i].extract <= 1
              /\ backend_calls[i].generate <= 1

\* C28: the element list of the pattern strategy holds no two elements with
\* the same category and the same value compared case-insensitively.
C28_NoDuplicateElements ==
    (Parsed /\ strategy = "pattern")
    => \A i, j \in 1..Len(parsed.search_elements) :
           LET a == parsed.search_elements[i]
               b == parsed.search_elements[j]
           IN  (a.category = b.category /\ Lower(a.value) = Lower(b.value))
               => i = j

-----------------------------------------------------------------------------
(* Properties of the server *)

\* the authenticated user's record and the scores counted for them today
Requester == users_db[SessionUser]

ScoresToday == Get(usage_db, SessionUser, ZeroUsage).scores

\* the handlers that score profiles, and those with the message generator
ScoringHandlers ==
    {"score_profile", "analyze_profile_llm", "analyze_profiles_batch"}

ProfileHandlers == ScoringHandlers \cup {"generate_message"}

\* C22: a step of score, analyze, batch analyze or message generation leaves
\* the users, profiles and messages stores as they were; of the usage store
\* only the requesting user's entry may change.
C22_NothingPersisted ==
    [][last_reply'.op \in ProfileHandlers
       => /\ users_db' = users_db
          /\ DOMAIN profiles_db' = DOMAIN profiles_db
          /\ DOMAIN messages_db' = DOMAIN messages_db
          /\ \A uid \in DOMAIN usage_db' \ {SessionUser} :
                 /\ uid \in DOMAIN usage_db
                 /\ usage_db'[uid] = usage_db[uid]]_vars

C22_Witness ==
    /\ last_reply.op = "analyze_profile_llm"
    /\ last_reply.status = 200
    /\ last_reply.tier \in {"high", "medium", "low"}
    /\ ScoresToday = last_reply.used + 1
    /\ DOMAIN profiles_db = {}
    /\ DOMAIN messages_db = {}

\* C23: once a resume was uploaded, the search elements the handlers read
\* for the user (the top-level list, else the background's list) are exactly
\* the list the latest upload produced, the empty list included, and the
\* background holds that same list.
C23_LatestUploadOnly ==
    \A uid \in DOMAIN users_db :
        "resume_data" \in DOMAIN users_db[uid]
        => LET latest == Get(users_db[uid]["resume_data"],
                             "search_elements", <<>>)
           IN  /\ user_search_elements(users_db[uid]) = latest
               /\ users_db[uid]["search_elements"] = latest
               /\ users_db[uid]["background"]["search_elements"] = latest

\* the signup background held an element, the latest upload produced none,
\* and a profile was scored after it
C23_Witness ==
    /\ "resume_data" \in DOMAIN Requester
    /\ Requester["resume_data"]["search_elements"] = <<>>
    /\ user_search_elements(Requester) = <<>>
    /\ last_reply.op = "score_profile"
    /\ last_reply.status = 200

\* C24: in production, for a free-tier user who never subscribed: the
\* counter of the day never exceeds 10; a score or analyze request is
\* refused with 429 "Daily limit reached" exactly when 10 were counted
\* before it, and a refused request is not counted; a batch is refused as a
\* whole exactly when it would take the counter past 10 and is otherwise
\* counted once per profile.
C24_FreeDailyLimit ==
    (/\ IS_PRODUCTION
     /\ Requester["subscription_tier"] = "free"
     /\ "stripe_subscription_id" \notin DOMAIN Requester)
    => /\ ScoresToday <= DAILY_SCORE_LIMIT
       /\ last_reply.op \in {"score_profile", "analyze_profile_llm"}
          => /\ last_reply.status = 429 <=> last_reply.used >= DAILY_SCORE_LIMIT
             /\ last_reply.status = 429
                => /\ ScoresToday = last_reply.used
                   /\ last_reply.detail
                          = "Daily limit reached. Upgrade to Pro for unlimited scoring."
             /\ last_reply.status = 200 => ScoresToday = last_reply.used + 1
       /\ (/\ last_reply.op = "analyze_profiles_batch"
           /\ "error" \notin DOMAIN last_reply)
          => /\ last_reply.status = 429
                <=> last_reply.used + last_reply.asked > DAILY_SCORE_LIMIT
             /\ last_reply.status = 429 => ScoresToday = last_reply.used
             /\ last_reply.status = 200
                => ScoresToday = last_reply.used + last_reply.asked

\* the tenth request of the day was counted and the next one refused
C24_Witness ==
    /\ IS_PRODUCTION
    /\ Requester["subscription_tier"] = "free"
    /\ "stripe_subscription_id" \notin DOMAIN Requester
    /\ last_reply.op = "score_profile"
    /\ last_reply.status = 429
    /\ ScoresToday = DAILY_SCORE_LIMIT

\* C25: no two stored users share an email, every stored id is distinct and
\* is the key of its record, and a signup refused with 400 "Email already
\* registered" leaves the number of users as it was.
C25_UniqueEmails ==
    /\ \A a, b \in DOMAIN users_db :
           users_db[a]["email"] = users_db[b]["email"] => a = b
    /\ \A a \in DOMAIN users_db : users_db[a]["id"] = a
    /\ (last_reply.op = "signup" /\ last_reply.status = 400)
       => /\ last_reply.detail = "Email already registered"
          /\ Cardinality(DOMAIN users_db) = last_reply.users

\* a second account exists and a signup with a registered email was refused
C25_Witness ==
    /\ Cardinality(DOMAIN users_db) = 2
    /\ last_reply.op = "signup"
    /\ last_reply.status = 400

\* C29: every answer of analyze_profile_llm carries a tier of the scheme
\* high, medium, low.
C29_LlmTierScheme ==
    (last_reply.op = "analyze_profile_llm" /\ last_reply.status = 200)
    => last_reply.tier \in {"high", "medium", "low"}

\* C30: in production, a request of a user whose subscription tier is pro
\* (set by a completed checkout, the subscription not deleted) is never
\* refused with 429 by score, analyze, batch analyze or message generation.
C30_ProNeverLimited ==
    (/\ IS_PRODUCTION
     /\ last_reply.op \in ProfileHandlers
     /\ last_reply.subscription_tier = "pro")
    => last_reply.status # 429

====
